---------------------------- MODULE Spec2Model ----------------------------
(***************************************************************************)
(* TrainLoop change-intelligence pipeline: the scheduler's single-flight   *)
(* guard (services/scheduler.ts, held in src/src/index.ts 689-835), the    *)
(* manual run route, and the change classifier startIngestion              *)
(* (src/src/index.ts 355-631) over the SQLite store (src/unnamed/part_001).*)
(*                                                                         *)
(* Execution is single-threaded and cooperative: code between two awaits   *)
(* is atomic.  Every action below performs the operation a handler is      *)
(* awaiting and then runs the handler's synchronous code up to its next    *)
(* await; pc names the operation a run is waiting for.                     *)
(***************************************************************************)
EXTENDS Naturals, Integers, Sequences, FiniteSets, TLC

\* ----------------------------------------------------------------- bounds
MaxRuns == 3        \* runs started one after the other (run ids 1..MaxRuns)
MaxConcRuns == 2    \* runs started when runs may overlap
MaxFiles == 2       \* longest listing listFiles returns
MaxListed == 3      \* files listed over all the runs of a behaviour
MaxDbFailures == 3  \* database operations that reject, over a behaviour
MaxBackfills == 2   \* backfills of the dashboard route running at a time
MaxExplRuns == 1    \* runs started while explanation tasks are followed
MaxExplFiles == 1   \* files listed over those runs

\* ------------------------------------------------------- input alphabets
Pdf == "application/pdf"
Docx == "application/vnd.openxmlformats-officedocument.wordprocessingml.document"
GDoc == "application/vnd.google-apps.document"
PlainText == "text/plain"
supportedMimes == {Pdf, Docx, GDoc}
NoMd5 == "undefined"
\* what exportGoogleDocText yields: text, the empty string, or an exception
ExportThrows == "<throws>"

\* A listed file {id, name, mimeType, modifiedTime, md5Checksum?}; export is
\* what the content collaborator will answer for it (read only for Google Docs).
File(id, name, mimeType, modifiedTime, md5Checksum, export) ==
    [id |-> id, name |-> name, mimeType |-> mimeType,
     modifiedTime |-> modifiedTime, md5Checksum |-> md5Checksum,
     export |-> export]

\* The entries a listing is drawn from.  Drive file g1 is a Google Doc seen
\* in four states (touched, renamed, renamed and rewritten), with an export
\* that fails or is empty, and under a type that is not supported; g2 is a PDF.
Files ==
    { File("g1", "a", GDoc, "t1", NoMd5, "c1"),
      File("g1", "a", GDoc, "t2", NoMd5, "c1"),
      File("g1", "b", GDoc, "t1", NoMd5, "c1"),
      File("g1", "b", GDoc, "t2", NoMd5, "c2"),
      File("g1", "a", GDoc, "t1", NoMd5, ""),
      File("g1", "a", GDoc, "t1", NoMd5, ExportThrows),
      File("g1", "a", PlainText, "t1", NoMd5, ""),
      File("g2", "a", Pdf, "t1", NoMd5, ""),
      File("g2", "a", Pdf, "t1", "m1", "") }

NoFile == [id |-> "", name |-> "", mimeType |-> "", modifiedTime |-> "",
           md5Checksum |-> NoMd5, export |-> ""]

Null == "null"
NoFolder == ""          \* config.folderId null or '' (both falsy)
Folder == "F"

\* ------------------------------------------------------------- variables
VARIABLES
    ingestionInProgress,  \* SchedulerService.ingestionInProgress
    config,               \* SchedulerService.config: enabled, folderId
    timer,                \* the interval of SchedulerService.timer is armed
    reply,                \* the last value runScheduledIngestion/runNow returned
    ingestionRuns,        \* table ingestion_runs: run id -> row
    documents,            \* table documents, in insertion order
    versions,             \* table document_versions, in insertion order
    changeRecords,        \* table change_records, in insertion order
    nextVersionId,        \* generateId(): the next unused version id
    explQueue,            \* explanation tasks launched by queueExplanation
    runs,                 \* per run: its origin, pc and startIngestion's locals
    dbFailures,           \* database operations that have rejected so far
    generator,            \* explanationGeneratorInstance: enabled, openai set
    backfills,            \* the calls of backfillNullExplanations
    auth,                 \* authManager: its fields, the callers of isAuthenticated
    call,                 \* a function called on its own: its arguments
    result,               \* and the value it returned
    budget                \* what the environment may still do: runs to start,
                          \* files to list

vars == <<ingestionInProgress, config, timer, reply, ingestionRuns, documents,
          versions, changeRecords, nextVersionId, explQueue, runs, dbFailures,
          generator, backfills, auth, call, result, budget>>

schedVars == <<ingestionInProgress, config, timer, reply>>
dbVars == <<ingestionRuns, documents, versions, changeRecords, nextVersionId,
           explQueue>>

pureVars == <<call, result>>
explVars == <<generator, backfills, pureVars, auth>>

RunIds == 1..MaxRuns
BackfillIds == 1..MaxBackfills

\* a call of backfillNullExplanations that has not been made: its pc, the
\* ids of the records its scan returned, its place in them, its counter
NoBackfill == [pc |-> "none", records |-> <<>>, at |-> 0, backfilled |-> 0]

\* EXPLANATIONS_ENABLED is not 'true' and the dashboard is not asked for
ExplanationsOff ==
    /\ generator = [enabled |-> FALSE, openai |-> FALSE]
    /\ backfills = [b \in BackfillIds |-> NoBackfill]

\* no function is called on its own
NoCall == [fn |-> "none", returned |-> FALSE]
NotCalled ==
    /\ call = NoCall
    /\ result = NoCall

\* The callers of authManager.isAuthenticated() that may be in flight at a
\* time: its pc, the code that called, the answer it got, and whether it
\* found an access token that was expired or expiring with a refresh token
\* held.
MaxCallers == 2
Callers == 1..MaxCallers
NoCaller == [pc |-> "idle", via |-> "none", answer |-> FALSE,
             sawExpiring |-> FALSE]

OldToken == "ya29.stored"
NewToken == "ya29.refreshed"

\* authManager with a token that is not about to expire and a refresh token
\* the token endpoint accepts (valid); nobody asks
SignedIn == [accessToken |-> OldToken, expiring |-> FALSE,
             refreshToken |-> TRUE, refreshing |-> FALSE, valid |-> TRUE,
             callers |-> [c \in Callers |-> NoCaller]]
AuthAtRest == auth = SignedIn

NoHash == [alg |-> "", value |-> ""]

NoDoc == [id |-> 0, googleDriveId |-> "", fileName |-> "", mimeType |-> "",
          lastModified |-> "", currentVersionId |-> 0, currentHash |-> NoHash,
          isDeleted |-> FALSE, deletedAt |-> Null]

\* updates counts the UPDATE statements the row has received
NoRow == [status |-> "absent", documentsProcessed |-> 0, changesDetected |-> 0,
          error |-> Null, updates |-> 0]

NoReply == [via |-> "none", guardWas |-> FALSE, runId |-> 0, error |-> Null]

\* A run that has not been started.  Besides startIngestion's locals a run
\* keeps, for the file being processed, which branch the lookup took and the
\* ids of the change records (fileRecs) and versions (fileVers) made for it,
\* the number of supported entries its listing has shown so far, the number
\* of documents it has inserted, the external ids its listing has shown
\* (listedIds), those among them whose content could not be extracted
\* (skippedIds), the ids of the documents that were active when it took its
\* document count (activeAtCount) and whether a request of its listing
\* failed (listFailed).
NoRun == [origin |-> "none", pc |-> "none", outcome |-> "none",
          isAuthenticated |-> TRUE,
          isBaselineRun |-> FALSE, totalDocCount |-> 0,
          filesLeft |-> 0, currentDriveIds |-> {},
          changesDetected |-> 0, docsProcessed |-> 0,
          file |-> NoFile, content |-> "", hash |-> NoHash, document |-> NoDoc,
          versionId |-> 0, prevContent |-> Null, recordId |-> 0,
          activeDocuments |-> <<>>, error |-> Null,
          listedSupported |-> 0, docsCreated |-> 0, branch |-> "",
          fileRecs |-> <<>>, fileVers |-> <<>>,
          listedIds |-> {}, skippedIds |-> {}, activeAtCount |-> {},
          listFailed |-> FALSE]

\* the tables after db.initialize() on a new database file
EmptyStore ==
    /\ ingestionRuns = [r \in RunIds |-> NoRow]
    /\ documents = <<>>
    /\ versions = <<>>
    /\ changeRecords = <<>>
    /\ nextVersionId = 1
    /\ explQueue = <<>>

\* The process after its start-up code (index.ts 26-39): the callback is set,
\* the scheduler has loaded any saved configuration and started its timer if
\* that configuration is enabled and names a folder.
Init ==
    /\ ingestionInProgress = FALSE
    /\ config \in [enabled : BOOLEAN, folderId : {NoFolder, Folder}]
    /\ timer = (config.enabled /\ config.folderId # NoFolder)
    /\ reply = NoReply
    /\ EmptyStore
    /\ ExplanationsOff
    /\ NotCalled
    /\ AuthAtRest
    /\ runs = [r \in RunIds |-> NoRun]
    /\ dbFailures = 0
    /\ budget = [runs |-> MaxConcRuns, files |-> 0]


\* ------------------------------------------------------------ the scheduler
AlreadyInProgress == "Ingestion already in progress"
NoFolderConfigured == "No folder ID configured"
NotConfigured == "Not configured"
StillRunning == "Previous ingestion still running"
Thrown == "String(error)"

Rejected(via, err) ==
    [via |-> via, guardWas |-> ingestionInProgress, runId |-> 0, error |-> err]

\* uuidv4(): a run id not used before
FreshRunId == CHOOSE r \in RunIds : runs[r].pc = "none" /\
                  \A q \in RunIds : runs[q].pc = "none" => r <= q
CanStartRun == budget.runs > 0

Executing(r) == runs[r].pc \notin {"none", "done"}
\* the run is inside startIngestion's body
InBody(r) == runs[r].pc \notin {"none", "done", "saveConfig", "createRun"}

\* SchedulerService.start()
start(cfg) ==
    IF cfg.folderId = NoFolder
    THEN [cfg |-> cfg, timer |-> FALSE]
    ELSE [cfg |-> [cfg EXCEPT !.enabled = TRUE], timer |-> TRUE]

\* SchedulerService.stop()
stop(cfg) == [cfg |-> [cfg EXCEPT !.enabled = FALSE], timer |-> FALSE]

\* POST /api/scheduler/start
Start ==
    /\ config' = start(config).cfg
    /\ timer' = start(config).timer
    /\ UNCHANGED <<ingestionInProgress, reply, dbVars, runs, dbFailures>>
    /\ UNCHANGED <<budget, explVars>>

\* POST /api/scheduler/stop
Stop ==
    /\ config' = stop(config).cfg
    /\ timer' = stop(config).timer
    /\ UNCHANGED <<ingestionInProgress, reply, dbVars, runs, dbFailures>>
    /\ UNCHANGED <<budget, explVars>>

\* POST /api/scheduler -> SchedulerService.updateConfig(updates); the route
\* takes any boolean as enabled and any string, '' included, as folderId
UpdateConfig ==
    \E en \in {config.enabled, TRUE, FALSE}, fo \in {config.folderId, NoFolder, Folder} :
        LET merged == [enabled |-> en, folderId |-> fo]
            after == IF merged.enabled /\ merged.folderId # NoFolder
                     THEN start(merged) ELSE stop(merged)
        IN  /\ config' = after.cfg
            /\ timer' = after.timer
            /\ UNCHANGED <<ingestionInProgress, reply, dbVars, runs, dbFailures,
                           budget, explVars>>

\* updateConfig when db.saveSchedulerConfig rejects: the merge stays, neither
\* start() nor stop() runs
UpdateConfigSaveFails ==
    /\ dbFailures < MaxDbFailures
    /\ \E en \in {config.enabled, TRUE, FALSE}, fo \in {config.folderId, NoFolder, Folder} :
          config' = [enabled |-> en, folderId |-> fo]
    /\ dbFailures' = dbFailures + 1
    /\ UNCHANGED <<ingestionInProgress, timer, reply, dbVars, runs>>
    /\ UNCHANGED <<budget, explVars>>

\* runScheduledIngestion without its look at the guard
runScheduledIngestionNoSkip(via) ==
    IF config.folderId = NoFolder
    THEN /\ reply' = Rejected(via, NotConfigured)
         /\ UNCHANGED <<ingestionInProgress, runs, budget, explVars>>
    ELSE /\ CanStartRun
         /\ ingestionInProgress' = TRUE
         /\ runs' = [runs EXCEPT ![FreshRunId] =
                        [NoRun EXCEPT !.origin = via, !.pc = "saveConfig"]]
         /\ budget' = [budget EXCEPT !.runs = @ - 1]
         /\ UNCHANGED explVars
         /\ UNCHANGED reply

\* runScheduledIngestion up to its first await (db.saveSchedulerConfig)
runScheduledIngestion(via) ==
    IF config.folderId = NoFolder
    THEN /\ reply' = Rejected(via, NotConfigured)
         /\ UNCHANGED <<ingestionInProgress, runs, budget, explVars>>
    ELSE IF ingestionInProgress
    THEN /\ reply' = Rejected(via, StillRunning)
         /\ UNCHANGED <<ingestionInProgress, runs, budget, explVars>>
    ELSE /\ CanStartRun
         /\ ingestionInProgress' = TRUE
         /\ runs' = [runs EXCEPT ![FreshRunId] =
                        [NoRun EXCEPT !.origin = via, !.pc = "saveConfig"]]
         /\ budget' = [budget EXCEPT !.runs = @ - 1]
         /\ UNCHANGED explVars
         /\ UNCHANGED reply

\* runNow leaving the guard to runScheduledIngestion
runNowNoCheck ==
    IF config.folderId = NoFolder
    THEN /\ reply' = Rejected("runNow", NoFolderConfigured)
         /\ UNCHANGED <<ingestionInProgress, runs, budget, explVars>>
    ELSE runScheduledIngestion("runNow")

\* SchedulerService.runNow()
runNow ==
    IF config.folderId = NoFolder
    THEN /\ reply' = Rejected("runNow", NoFolderConfigured)
         /\ UNCHANGED <<ingestionInProgress, runs, budget, explVars>>
    ELSE IF ingestionInProgress
    THEN /\ reply' = Rejected("runNow", AlreadyInProgress)
         /\ UNCHANGED <<ingestionInProgress, runs, budget, explVars>>
    ELSE runScheduledIngestion("runNow")

\* POST /api/scheduler/run-now
RunNow ==
    /\ runNow
    /\ UNCHANGED <<config, timer, dbVars, dbFailures>>

\* the setInterval callback of start()
TimerTick ==
    /\ timer
    /\ runScheduledIngestion("tick")
    /\ UNCHANGED <<config, timer, dbVars, dbFailures>>

\* the guard cleared on the return path only, with no finally block
EndOfRunBodyNoFinally(r, thrown) ==
    IF runs[r].origin \in {"tick", "runNow"}
    THEN /\ ingestionInProgress' = ~thrown
         /\ reply' = [via |-> runs[r].origin, guardWas |-> FALSE,
                      runId |-> IF thrown THEN 0 ELSE r,
                      error |-> IF thrown THEN Thrown ELSE Null]
    ELSE UNCHANGED <<ingestionInProgress, reply>>

\* The end of runScheduledIngestion for run r: its return value and the
\* finally block.  A manual run (POST /api/ingestion-runs) never holds the guard.
EndOfRunBody(r, thrown) ==
    IF runs[r].origin \in {"tick", "runNow"}
    THEN /\ ingestionInProgress' = FALSE
         /\ reply' = [via |-> runs[r].origin, guardWas |-> FALSE,
                      runId |-> IF thrown THEN 0 ELSE r,
                      error |-> IF thrown THEN Thrown ELSE Null]
    ELSE UNCHANGED <<ingestionInProgress, reply>>

\* an exception leaves the run: the run is over and its locals are gone
Throw(r, rs) ==
    [rs EXCEPT ![r] = [NoRun EXCEPT !.pc = "done", !.outcome = "thrown"]]

\* await db.saveSchedulerConfig(this.config) of runScheduledIngestion
SaveConfig(r) ==
    /\ runs[r].pc = "saveConfig"
    /\ runs' = [runs EXCEPT ![r].pc = "createRun"]
    /\ UNCHANGED <<schedVars, dbVars, dbFailures>>
    /\ UNCHANGED <<budget, explVars>>

SaveConfigFails(r) ==
    /\ runs[r].pc = "saveConfig"
    /\ dbFailures < MaxDbFailures
    /\ dbFailures' = dbFailures + 1
    /\ runs' = Throw(r, runs)
    /\ EndOfRunBody(r, TRUE)
    /\ UNCHANGED <<config, timer, dbVars>>
    /\ UNCHANGED <<budget, explVars>>

\* -------------------------------------------------------------- the store
\* db.getDocumentByGoogleDriveId
getDocumentByGoogleDriveId(gid) ==
    IF \E i \in 1..Len(documents) : documents[i].googleDriveId = gid
    THEN documents[CHOOSE i \in 1..Len(documents) : documents[i].googleDriveId = gid]
    ELSE NoDoc

\* the query without its WHERE clause
getAllDocuments == documents

\* db.getActiveDocuments: WHERE isDeleted = 0 OR isDeleted IS NULL
getActiveDocuments == SelectSeq(documents, LAMBDA d : ~d.isDeleted)

\* the count taken over the documents that are not soft-deleted
getActiveDocumentCount == Len(getActiveDocuments)

\* db.getTotalDocumentCount: SELECT COUNT(*) FROM documents
getTotalDocumentCount == Len(documents)

\* db.getDocumentVersion
getDocumentVersion(vid) ==
    IF \E i \in 1..Len(versions) : versions[i].id = vid
    THEN versions[CHOOSE i \in 1..Len(versions) : versions[i].id = vid]
    ELSE [id |-> 0, documentId |-> 0, hash |-> NoHash, content |-> Null]

\* db.updateDocument(id, updates): UPDATE documents SET ... WHERE id = ?
updateDocument(docs, id, upd) ==
    [i \in 1..Len(docs) |->
        IF docs[i].id = id
        THEN [f \in DOMAIN docs[i] |->
                 IF f \in DOMAIN upd THEN upd[f] ELSE docs[i][f]]
        ELSE docs[i]]

\* db.updateIngestionRun(id, updates)
updateIngestionRun(rows, id, upd) ==
    [rows EXCEPT ![id] =
        [f \in DOMAIN rows[id] |->
            IF f \in DOMAIN upd THEN upd[f]
            ELSE IF f = "updates" THEN rows[id][f] + 1
            ELSE rows[id][f]]]

\* the ChangeReason object of a record, absent fields at their defaults
NoReason == [nameChanged |-> FALSE, oldName |-> Null, newName |-> Null,
             contentChanged |-> FALSE, lastSeenAt |-> Null,
             lastKnownName |-> Null, baselineDocCount |-> 0]

\* ----------------------------------------------------- content and hashes
PdfPlaceholder == "[PDF Placeholder]"
DocxPlaceholder == "[DOCX Placeholder]"

\* extractContent(file): '' when the export throws or yields nothing
extractContent(f) ==
    IF f.mimeType = GDoc
    THEN (IF f.export = ExportThrows THEN "" ELSE f.export)
    ELSE IF f.mimeType = Pdf THEN PdfPlaceholder
    ELSE IF f.mimeType = Docx THEN DocxPlaceholder
    ELSE ""

\* googleDriveService.computeHash: SHA-256 of the content, taken as injective
computeHash(content) ==
    CASE content = "c1" -> "9f1c"
      [] content = "c2" -> "4be2"
      [] content = PdfPlaceholder -> "a7d0"
      [] content = DocxPlaceholder -> "e315"
      [] OTHER -> "e3b0"

\* the algorithm-tagged hash of index.ts 413-415
fileHash(f, content) ==
    IF f.mimeType = GDoc \/ f.md5Checksum = NoMd5
    THEN [alg |-> "sha256", value |-> computeHash(content)]
    ELSE [alg |-> "md5", value |-> f.md5Checksum]

\* ------------------------------------------------------- the diff engine
\* A text is the sequence of its raw segments, the pieces that the separator
\* /\n\s*\n/ of splitIntoParagraphs leaves.  The segments below are single
\* lines, none a substring of another once trimmed.
SegPlain == "Intro text."
SegPadded == " Intro text. "
SegBlank == "  "
SegHeading == "SCOPE:"
SegRisk == "We may share data."
SegReq == "Staff must complete training."
SegLong == "thirty-one words ..."
SegPenalty == "A penalty applies."
Segments == {SegPlain, SegPadded, SegBlank, SegHeading, SegRisk, SegReq, SegLong,
             SegPenalty}

\* String.prototype.trim on a segment
trim(s) ==
    CASE s = SegPadded -> SegPlain
      [] s = SegBlank -> ""
      [] OTHER -> s

\* splitIntoParagraphs(text): split, trim, drop the empty ones
splitIntoParagraphs(text) ==
    SelectSeq([k \in 1..Len(text) |-> trim(text[k])], LAMBDA p : p # "")

\* HIGH_RISK_PHRASES found in a paragraph by detectHighRiskPhrases
detectHighRiskPhrases(p) ==
    CASE p = SegRisk -> <<"share">>
      [] p = SegPenalty -> <<"penalty">>
      [] OTHER -> <<>>

\* text.split(/\s+/).length
wordCount(p) ==
    CASE p = SegLong -> 31
      [] p = SegRisk -> 4
      [] p = SegReq -> 4
      [] p = SegPenalty -> 3
      [] p = SegPlain -> 2
      [] p = SegHeading -> 1
      [] OTHER -> 1

\* truncateExcerpt(text, maxWords = 30)
truncateExcerpt(p) ==
    IF wordCount(p) <= 30 THEN p ELSE "thirty words......"

\* the heading test of findNearestHeading on one line, and the heading it
\* returns (leading #s and the final colon removed)
isHeading(line) == line = SegHeading
headingOf(line) == IF line = SegHeading THEN "SCOPE" ELSE line

\* text.indexOf(p) as a segment index: the first segment that holds p
firstSegmentOf(text, p) ==
    IF \E k \in 1..Len(text) : trim(text[k]) = p
    THEN CHOOSE k \in 1..Len(text) :
            /\ trim(text[k]) = p
            /\ \A h \in 1..(k - 1) : trim(text[h]) # p
    ELSE 0

\* findNearestHeading(text, text.indexOf(p)): the last heading line before
\* the first occurrence of p, or null
findNearestHeading(text, p) ==
    LET pos == firstSegmentOf(text, p)
        heads == {k \in 1..(pos - 1) : isHeading(trim(text[k]))}
    IN  IF pos = 0 \/ heads = {} THEN Null
        ELSE headingOf(trim(text[CHOOSE k \in heads : \A h \in heads : h <= k]))

NoIndex == 0 - 1

\* computeLCSMatrix(a, b): dp[i][j] for the prefixes of lengths i and j
RECURSIVE lcs(_, _, _, _)
lcs(a, b, i, j) ==
    IF i = 0 \/ j = 0 THEN 0
    ELSE IF a[i] = b[j] THEN lcs(a, b, i - 1, j - 1) + 1
    ELSE IF lcs(a, b, i - 1, j) >= lcs(a, b, i, j - 1)
         THEN lcs(a, b, i - 1, j) ELSE lcs(a, b, i, j - 1)

computeLCSMatrix(a, b) ==
    [i \in 0..Len(a) |-> [j \in 0..Len(b) |-> lcs(a, b, i, j)]]

\* the first test of the loop with the second index one too low
matchesOffByOne(a, b, i, j) == i > 0 /\ j > 1 /\ a[i] = b[j - 1]

\* i > 0 && j > 0 && a[i - 1] === b[j - 1]
matches(a, b, i, j) == i > 0 /\ j > 0 /\ a[i] = b[j]

\* the second test of the loop without its look at the table
stepsBackInBIgnoringTable(dp, i, j) == j > 0

\* the second test of the loop with a strict comparison: on equal cells the
\* removed operation is taken first
stepsBackInBOnlyIfLarger(dp, i, j) ==
    j > 0 /\ (i = 0 \/ dp[i][j - 1] > dp[i - 1][j])

\* j > 0 && (i === 0 || dp[i][j - 1] >= dp[i - 1][j])
stepsBackInB(dp, i, j) == j > 0 /\ (i = 0 \/ dp[i][j - 1] >= dp[i - 1][j])

\* the while loop of backtrackDiff from (i, j): result.unshift puts each
\* operation before those of the larger indices
RECURSIVE backtrackFrom(_, _, _, _, _)
backtrackFrom(dp, a, b, i, j) ==
    IF i = 0 /\ j = 0 THEN <<>>
    ELSE IF matches(a, b, i, j)
    THEN Append(backtrackFrom(dp, a, b, i - 1, j - 1),
                [type |-> "same", value |-> a[i],
                 indexA |-> i - 1, indexB |-> j - 1])
    ELSE IF stepsBackInB(dp, i, j)
    THEN Append(backtrackFrom(dp, a, b, i, j - 1),
                [type |-> "added", value |-> b[j],
                 indexA |-> NoIndex, indexB |-> j - 1])
    ELSE Append(backtrackFrom(dp, a, b, i - 1, j),
                [type |-> "removed", value |-> a[i],
                 indexA |-> i - 1, indexB |-> NoIndex])

\* backtrackDiff(dp, a, b)
backtrackDiff(dp, a, b) == backtrackFrom(dp, a, b, Len(a), Len(b))

\* after.replace(before, ''): no paragraph holds another, so only an equal
\* one is removed
replaceFirst(after, before) == IF after = before THEN "" ELSE after

\* extractRequirementSentences(text): the sentences with an obligation verb
\* or a system, training or storage keyword ('must', 'training' in SegReq)
extractRequirementSentences(p) ==
    IF p = SegReq THEN <<SegReq>> ELSE <<>>

\* [...new Set(list)]: the first occurrence of each element
RECURSIVE unique(_)
unique(list) ==
    IF list = <<>> THEN <<>>
    ELSE LET init == unique(SubSeq(list, 1, Len(list) - 1))
             last == list[Len(list)]
         IN  IF \E k \in 1..Len(init) : init[k] = last
             THEN init ELSE Append(init, last)

\* the loop of computeTextDiff over diffOps from position k (1-based):
\* the chunks and the phrases it pushes
RECURSIVE diffLoop(_, _, _, _)
diffLoop(ops, prev, new, k) ==
    IF k > Len(ops) THEN [chunks |-> <<>>, phrases |-> <<>>]
    ELSE IF ops[k].type = "same" THEN diffLoop(ops, prev, new, k + 1)
    ELSE IF ops[k].type = "removed" /\ k + 1 <= Len(ops)
                /\ ops[k + 1].type = "added"
    THEN LET rest == diffLoop(ops, prev, new, k + 2)
             before == ops[k].value
             after == ops[k + 1].value
         IN  [chunks |-> <<[type |-> "modified",
                            before |-> truncateExcerpt(before),
                            after |-> truncateExcerpt(after),
                            location |-> findNearestHeading(prev, before)]>>
                          \o rest.chunks,
              phrases |-> detectHighRiskPhrases(replaceFirst(after, before))
                          \o rest.phrases]
    ELSE IF ops[k].type = "added"
    THEN LET rest == diffLoop(ops, prev, new, k + 1)
         IN  [chunks |-> <<[type |-> "added", before |-> Null,
                            after |-> truncateExcerpt(ops[k].value),
                            location |-> findNearestHeading(new, ops[k].value)]>>
                          \o rest.chunks,
              phrases |-> detectHighRiskPhrases(ops[k].value) \o rest.phrases]
    ELSE LET rest == diffLoop(ops, prev, new, k + 1)
         IN  [chunks |-> <<[type |-> "removed",
                            before |-> truncateExcerpt(ops[k].value),
                            after |-> Null,
                            location |-> findNearestHeading(prev, ops[k].value)]>>
                          \o rest.chunks,
              phrases |-> rest.phrases]

\* the comparator of the sort: a chunk whose after text holds a phrase
hasRisk(chunk) ==
    chunk.after # Null /\ detectHighRiskPhrases(chunk.after) # <<>>

\* a sort that puts the chunks without a phrase first
prioritizeNoRiskFirst(chunks) ==
    SelectSeq(chunks, LAMBDA c : ~hasRisk(c)) \o SelectSeq(chunks, hasRisk)

\* chunks.sort(risk first), a stable sort
prioritize(chunks) ==
    SelectSeq(chunks, hasRisk) \o SelectSeq(chunks, LAMBDA c : ~hasRisk(c))

\* Array.prototype.slice(0, n)
slice(list, n) == SubSeq(list, 1, IF Len(list) < n THEN Len(list) ELSE n)

\* the requirement statements of one chunk (extractRequirementsFromChunks)
requirementsOf(chunk) ==
    IF chunk.type = "added" /\ chunk.after \notin {Null, ""}
    THEN [k \in 1..Len(extractRequirementSentences(chunk.after)) |->
             [text |-> extractRequirementSentences(chunk.after)[k],
              beforeText |-> Null, afterText |-> chunk.after,
              location |-> chunk.location]]
    ELSE IF chunk.type = "modified" /\ chunk.after \notin {Null, ""}
    THEN LET afterSentences == extractRequirementSentences(chunk.after)
             beforeSentences == IF chunk.before \notin {Null, ""}
                                THEN extractRequirementSentences(chunk.before)
                                ELSE <<>>
             fresh == SelectSeq(afterSentences,
                         LAMBDA s : \A k \in 1..Len(beforeSentences) :
                                        beforeSentences[k] # s)
         IN  [k \in 1..Len(fresh) |->
                 [text |-> fresh[k], beforeText |-> chunk.before,
                  afterText |-> chunk.after, location |-> chunk.location]]
    ELSE <<>>

\* extractRequirementsFromChunks(chunks, previousContent, newContent)
RECURSIVE extractRequirementsFromChunks(_)
extractRequirementsFromChunks(chunks) ==
    IF chunks = <<>> THEN <<>>
    ELSE requirementsOf(Head(chunks))
             \o extractRequirementsFromChunks(Tail(chunks))

DefaultMaxChunks == 8

\* computeTextDiff(previousContent, newContent, maxChunks)
computeTextDiff(previousContent, newContent, maxChunks) ==
    LET prevParagraphs == splitIntoParagraphs(previousContent)
        newParagraphs == splitIntoParagraphs(newContent)
        dp == computeLCSMatrix(prevParagraphs, newParagraphs)
        diffOps == backtrackDiff(dp, prevParagraphs, newParagraphs)
        loop == diffLoop(diffOps, previousContent, newContent, 1)
        count(type) == Len(SelectSeq(loop.chunks, LAMBDA c : c.type = type))
        uniqueHighRisk == unique(loop.phrases)
        prioritizedChunks == slice(prioritize(loop.chunks), maxChunks)
    IN  [chunks |-> prioritizedChunks,
         summary |-> [added |-> count("added"), removed |-> count("removed"),
                      modified |-> count("modified")],
         highRiskPhrases |-> uniqueHighRisk,
         hasHighRiskChanges |-> Len(uniqueHighRisk) > 0,
         isProcedural |-> FALSE,
         requirements |-> extractRequirementsFromChunks(prioritizedChunks)]

\* ------------------------------------------------ explanation generators
\* Contents: the export texts c1 and c2 of the listing alphabet are
\* substantive (more than 50 characters, no leading bracket); ShortText has
\* at most 50; the placeholders start with a bracket.
ShortText == "short note"
textOf(content) ==
    CASE content = "c1" -> <<SegHeading, SegPlain, SegReq>>
      [] content = "c2" -> <<SegHeading, SegPadded, SegRisk>>
      [] content = "c3" -> <<SegHeading, SegPlain, SegPenalty>>
      [] content \in {Null, ""} -> <<>>
      [] OTHER -> <<content>>

startsWithBracket(content) == content \in {PdfPlaceholder, DocxPlaceholder}
longerThan50(content) == content \in {"c1", "c2", "c3"}

\* content && !content.startsWith('[') && content.length > 50
substantive(content) ==
    /\ content \notin {Null, ""}
    /\ ~startsWithBracket(content)
    /\ longerThan50(content)

\* The reason column of a record as text: absent, text that JSON.parse
\* rejects, the JSON text null, the JSON text of a number, or the JSON text
\* of an object (value holds the object).
ReasonText(json, value) == [json |-> json, value |-> value]
AbsentReason == ReasonText("absent", NoReason)
UnparsableReason == ReasonText("unparsable", NoReason)
JsonNullReason == ReasonText("null", NoReason)
JsonNumberReason == ReasonText("number", NoReason)

\* JSON.stringify(reason) of an object whose values are strings, booleans
\* and numbers: JSON.parse gives the object back
stringify(reason) == ReasonText("object", reason)

\* parseReason(record): {} for no reason and for text JSON.parse rejects,
\* else what JSON.parse returns: the object, null, or a number, which has
\* none of the properties read
parseReason(reason) ==
    [isNull |-> reason.json = "null",
     value |-> IF reason.json = "object" THEN reason.value ELSE NoReason]

\* x || y on strings
orElse(x, y) == IF x \in {Null, ""} THEN y ELSE x

\* new Date(t).toLocaleDateString()
toLocaleDateString(t) ==
    CASE t = "t1" -> "1/1/2025"
      [] t = "t2" -> "1/2/2025"
      [] OTHER -> "Invalid Date"

\* every text and bullet is a template filled with up to two strings and a
\* number
Phrase(kind, x, y, n) == [kind |-> kind, x |-> x, y |-> y, n |-> n]

\* an optional list of the bullets object: the key is present or not
Absent == [present |-> FALSE, items |-> <<>>]
Present(items) == [present |-> TRUE, items |-> items]

NoOutput == [threw |-> FALSE, text |-> Phrase("", Null, Null, 0),
             what_changed |-> <<>>,
             change_items |-> Absent,
             new_or_changed_requirements |-> Absent,
             meta |-> [deterministic |-> TRUE, confidence |-> "high",
                       promptVersion |-> "deterministic-v2"]]

\* a TypeError (a property read on null) leaves generateExplanation: its
\* promise rejects
Threw == [NoOutput EXCEPT !.threw = TRUE]

\* createDeterministicExplanation(text, bullets, meta)
createDeterministicExplanation(text, what_changed, confidence) ==
    [NoOutput EXCEPT !.text = text, !.what_changed = what_changed,
                     !.meta.confidence = confidence]

\* detectProceduralDocument(fileName, content): the name holds 'sop' or
\* 'procedure'; no segment of the alphabet holds a keyword or a numbered step
SopName == "SOP-7"
detectProceduralDocument(fileName, content) == fileName = SopName

\* computeTextDiffWithContext(previousContent, newContent, fileName)
computeTextDiffWithContext(previousContent, newContent, fileName) ==
    [computeTextDiff(previousContent, newContent, DefaultMaxChunks)
        EXCEPT !.isProcedural = detectProceduralDocument(fileName, newContent)]

\* categorizeRequirement and extractAppliesTo on the sentences of the
\* alphabet: 'training' is a training keyword, no role pattern matches
categorizeRequirement(sentence) ==
    IF sentence = SegReq THEN "training" ELSE "obligation"
extractAppliesTo(sentence) == Null

\* describeNewRequirement(req)
describeNewRequirement(req) ==
    LET category == categorizeRequirement(req.text)
        base == CASE category = "training" -> "New training requirement"
                  [] OTHER -> "New requirement or obligation"
    IN  Phrase(base, extractAppliesTo(req.text), Null, 0)

\* the SOPRequirement generateSOPExplanation makes of one requirement
sopRequirement(req) ==
    [requirement |-> req.text,
     applies_to |-> extractAppliesTo(req.text),
     what_is_new |-> describeNewRequirement(req),
     before_excerpt |-> req.beforeText,
     after_excerpt |-> orElse(req.afterText, req.text),
     category |-> categorizeRequirement(req.text),
     confidence |-> IF req.location = Null THEN "medium" ELSE "high"]

\* generateSOPExplanation(documentName, diffResult)
generateSOPExplanation(name, diffResult) ==
    LET sopRequirements == [k \in 1..Len(diffResult.requirements) |->
                               sopRequirement(diffResult.requirements[k])]
    IN  [createDeterministicExplanation(
             Phrase("SOP modified: n new/changed requirement(s)", name, Null,
                    Len(sopRequirements)),
             [k \in 1..Len(sopRequirements) |-> sopRequirements[k].what_is_new],
             "high")
           EXCEPT !.new_or_changed_requirements = Present(sopRequirements)]

\* the plain_english_change of one chunk
plainEnglish(chunk) ==
    Phrase(CASE chunk.type = "added" -> "New content added"
             [] chunk.type = "removed" -> "Content removed"
             [] OTHER -> "Content modified",
           chunk.location, Null, 0)

\* detectHighRiskInText(text): the phrases of the generator's own list
\* ('sell' ... 'personal data') found in the text
detectHighRiskInText(p) ==
    IF p = SegRisk THEN <<"share">> ELSE <<>>

\* the why_it_matters and recommended_action of a chunk by its type
whyMattersOf(chunk) ==
    Phrase(CASE chunk.type = "added" -> "New policy language may introduce"
             [] chunk.type = "removed" -> "Removed language may indicate"
             [] OTHER -> "Modified language may change",
           Null, Null, 0)
actionOf(chunk) ==
    Phrase(CASE chunk.type = "added" -> "Review the added content"
             [] chunk.type = "removed" -> "Verify removal was intentional"
             [] OTHER -> "Compare before and after text",
           Null, Null, 0)

\* the escalation message that replaces them
EscalatedWhy(phrase) ==
    Phrase("HIGH RISK: Contains language", phrase, Null, 0)
EscalatedAction ==
    Phrase("Escalate for legal/compliance review immediately", Null, Null, 0)

\* the ChangeItem generateEvidenceBasedExplanation makes of one chunk
changeItem(chunk) ==
    LET hrPhrases == IF chunk.after \notin {Null, ""}
                     THEN detectHighRiskInText(chunk.after) ELSE <<>>
    IN  [change_type |-> chunk.type,
         location |-> chunk.location,
         before_excerpt |-> chunk.before,
         after_excerpt |-> chunk.after,
         plain_english_change |-> plainEnglish(chunk),
         why_it_matters |-> IF Len(hrPhrases) > 0
                            THEN EscalatedWhy(hrPhrases[1])
                            ELSE whyMattersOf(chunk),
         recommended_action |-> IF Len(hrPhrases) > 0 THEN EscalatedAction
                                ELSE actionOf(chunk),
         confidence |-> IF chunk.location = Null THEN "medium" ELSE "high"]

\* generateEvidenceBasedExplanation(documentName, diffResult)
generateEvidenceBasedExplanation(name, diffResult) ==
    LET changeItems == [k \in 1..Len(diffResult.chunks) |->
                           changeItem(diffResult.chunks[k])]
    IN  [createDeterministicExplanation(
             Phrase("modified with n specific change(s)", name,
                    IF diffResult.hasHighRiskChanges THEN "HIGH RISK" ELSE "",
                    Len(diffResult.chunks)),
             IF changeItems = <<>>
             THEN <<Phrase("content has changed", name, Null, 0)>>
             ELSE [k \in 1..Len(changeItems) |->
                      changeItems[k].plain_english_change],
             IF Len(changeItems) > 0 THEN "high" ELSE "medium")
           EXCEPT !.change_items = Present(changeItems)]

\* generateCreatedExplanation(documentName, content)
generateCreatedExplanation(documentName, content) ==
    LET name == orElse(documentName, "New document")
    IN  IF substantive(content)
        THEN createDeterministicExplanation(
                 Phrase("New document added to the tracked folder", name, Null, 0),
                 <<Phrase("New document has been added", name, Null, 0)>>,
                 "medium")
        ELSE createDeterministicExplanation(
                 Phrase("New document added. Content analysis not available",
                        name, Null, 0),
                 <<Phrase("New document detected", name, Null, 0)>>,
                 "low")

\* generateModifiedExplanation choosing the requirement shape for every
\* procedural document, whether or not a requirement was extracted
generateModifiedExplanationByNameOnly(documentName, previousContent, newContent) ==
    LET name == orElse(documentName, "Document")
    IN  IF substantive(previousContent) /\ substantive(newContent)
        THEN LET diffResult == computeTextDiffWithContext(
                                   textOf(previousContent), textOf(newContent),
                                   name)
             IN  IF diffResult.isProcedural
                 THEN generateSOPExplanation(name, diffResult)
                 ELSE generateEvidenceBasedExplanation(name, diffResult)
        ELSE createDeterministicExplanation(
                 Phrase("modified. Detailed diff not available", name, Null, 0),
                 <<Phrase("content has changed", name, Null, 0)>>,
                 "low")

\* generateModifiedExplanation(documentName, previousContent, newContent)
generateModifiedExplanation(documentName, previousContent, newContent) ==
    LET name == orElse(documentName, "Document")
    IN  IF substantive(previousContent) /\ substantive(newContent)
        THEN LET diffResult == computeTextDiffWithContext(
                                   textOf(previousContent), textOf(newContent),
                                   name)
             IN  IF diffResult.isProcedural /\ Len(diffResult.requirements) > 0
                 THEN generateSOPExplanation(name, diffResult)
                 ELSE generateEvidenceBasedExplanation(name, diffResult)
        ELSE createDeterministicExplanation(
                 Phrase("modified. Detailed diff not available", name, Null, 0),
                 <<Phrase("content has changed", name, Null, 0)>>,
                 "low")

\* an ExplanationInput: the record's type and reason column, the optional
\* document name and contents
ExplanationInput(changeType, reason, documentName, previousContent, newContent) ==
    [changeType |-> changeType, reason |-> reason,
     documentName |-> documentName, previousContent |-> previousContent,
     newContent |-> newContent]

\* DeterministicExplanationGenerator.generateExplanation(input)
DeterministicGenerate(input) ==
    LET parsed == parseReason(input.reason)
        reason == parsed.value
    IN  CASE input.changeType = "baseline" ->
               IF parsed.isNull THEN Threw
               ELSE createDeterministicExplanation(
                        Phrase("Baseline established: n documents indexed",
                               Null, Null, reason.baselineDocCount),
                        <<Phrase("Initial document inventory captured", Null,
                                 Null, reason.baselineDocCount),
                          Phrase("All documents indexed", Null, Null, 0)>>,
                        "high")
          [] input.changeType = "renamed" ->
               IF parsed.isNull THEN Threw
               ELSE LET oldName == orElse(reason.oldName, "unknown")
                        newName == orElse(reason.newName,
                                          orElse(input.documentName, "unknown"))
                    IN  createDeterministicExplanation(
                            Phrase("Document renamed", oldName, newName, 0),
                            <<Phrase("File name changed", oldName, newName, 0)>>,
                            "high")
          [] input.changeType = "deleted" ->
               IF parsed.isNull THEN Threw
               ELSE LET deletedName ==
                            orElse(reason.lastKnownName,
                                   orElse(input.documentName, "Unknown document"))
                        lastSeen == IF reason.lastSeenAt \in {Null, ""} THEN ""
                                    ELSE toLocaleDateString(reason.lastSeenAt)
                    IN  createDeterministicExplanation(
                            Phrase("removed from the monitored folder",
                                   deletedName, lastSeen, 0),
                            <<Phrase("is no longer in the monitored folder",
                                     deletedName, Null, 0)>>,
                            "medium")
          [] input.changeType = "created" ->
               generateCreatedExplanation(input.documentName, input.newContent)
          [] input.changeType = "modified" ->
               generateModifiedExplanation(input.documentName,
                                           input.previousContent,
                                           input.newContent)
          [] OTHER ->
               createDeterministicExplanation(
                   Phrase("Change detected in document", Null, Null, 0),
                   <<Phrase("Document change detected", Null, Null, 0)>>,
                   "low")

\* what the chat completion call of generateAIExplanation ends in: a JSON
\* object with the asked fields, the JSON object {}, a transport or HTTP
\* error, no content, or content JSON.parse rejects
AiFull == "response"
AiBare == "{}"
AiTransportError == "Connection error."
AiEmpty == "Empty response from AI"
AiUnparsable == "Unexpected token in JSON"
AiOutcomes == {AiFull, AiBare, AiTransportError, AiEmpty, AiUnparsable}
AiErrors == {AiTransportError, AiEmpty, AiUnparsable}

\* the ExplanationOutput generateAIExplanation builds from the parsed response
AiOutput(outcome) ==
    [NoOutput EXCEPT
        !.text = IF outcome = AiFull THEN Phrase("title", Null, Null, 0)
                 ELSE Phrase("Document change detected", Null, Null, 0),
        !.what_changed = IF outcome = AiFull
                         THEN <<Phrase("bullet 1", Null, Null, 0)>> ELSE <<>>,
        !.change_items = Present(<<>>),
        !.meta = [deterministic |-> FALSE,
                  confidence |-> IF outcome = AiFull THEN "high" ELSE "medium",
                  promptVersion |-> "evidence-v2"]]

\* the first test of ReplitAIExplanationGenerator.generateExplanation left out
delegatesByFlagOnly(gen, changeType) == ~gen.enabled \/ ~gen.openai

\* the two tests of ReplitAIExplanationGenerator.generateExplanation that
\* hand the input to the deterministic strategy
delegates(gen, changeType) ==
    \/ changeType \in {"baseline", "renamed", "deleted"}
    \/ ~gen.enabled \/ ~gen.openai

\* ReplitAIExplanationGenerator.generateExplanation(input) with the outcome
\* of the chat completion call, should it make one: the output, whether the
\* call was made, and the error the catch block logged
ReplitGenerate(gen, input, outcome) ==
    IF delegates(gen, input.changeType)
    THEN [output |-> DeterministicGenerate(input), aiCalled |-> FALSE,
          aiError |-> Null]
    ELSE IF outcome \in AiErrors
    THEN [output |-> DeterministicGenerate(input), aiCalled |-> TRUE,
          aiError |-> outcome]
    ELSE [output |-> AiOutput(outcome), aiCalled |-> TRUE, aiError |-> Null]

\* -------------------------------------------- explanation tasks, backfill
\* error.message of a rejected database operation
DbError == "error.message"

\* explanationMeta as stored: the meta of the output and the marks that the
\* fallback and the backfill add
NoMeta == [deterministic |-> TRUE, confidence |-> "", promptVersion |-> "",
           fallbackFromError |-> FALSE, backfilled |-> FALSE]

storedMeta(meta, fallbackFromError, backfilled) ==
    [deterministic |-> meta.deterministic, confidence |-> meta.confidence,
     promptVersion |-> meta.promptVersion,
     fallbackFromError |-> fallbackFromError, backfilled |-> backfilled]

\* a ChangeRecord as db.createChangeRecord stores it (undefined ids become
\* NULL, here 0), its explanation columns unset; run is the run whose
\* startIngestion created it.  explainedAt counts the writes of the
\* explanation columns: each write stores the time it was made at.
ChangeRecord(r, docId, prevVid, newVid, type, summary, reason, severity) ==
    [id |-> Len(changeRecords) + 1, documentId |-> docId,
     previousVersionId |-> prevVid, newVersionId |-> newVid,
     changeType |-> type, summary |-> summary, reason |-> reason,
     severity |-> severity, explanationStatus |-> Null,
     explanationText |-> NoOutput.text, explanationBullets |-> <<>>,
     explanationMeta |-> NoMeta, explanationError |-> Null,
     explainedAt |-> 0, run |-> r]

\* the explanation columns of a record
explanationOf(rec) ==
    [explanationStatus |-> rec.explanationStatus,
     explanationText |-> rec.explanationText,
     explanationBullets |-> rec.explanationBullets,
     explanationMeta |-> rec.explanationMeta,
     explanationError |-> rec.explanationError,
     explainedAt |-> rec.explainedAt]

\* db.updateChangeRecordExplanation(id, fields): the given explanation
\* columns of the record are set, explainedAt among them
updateChangeRecordExplanation(recs, id, upd) ==
    [i \in 1..Len(recs) |->
        IF recs[i].id = id
        THEN [f \in DOMAIN recs[i] |->
                 IF f \in DOMAIN upd THEN upd[f]
                 ELSE IF f = "explainedAt" THEN recs[i][f] + 1
                 ELSE recs[i][f]]
        ELSE recs[i]]

\* db.getChangeRecordsWithNullExplanations(): the ids of the records whose
\* explanation status is unset
getChangeRecordsWithNullExplanations ==
    LET ids == [i \in 1..Len(changeRecords) |-> changeRecords[i].id]
    IN  SelectSeq(ids, LAMBDA id : changeRecords[id].explanationStatus = Null)

\* queueExplanation(changeRecord, documentName?, previousContent?,
\* newContent?): generateAndStoreExplanation runs up to its first await, which
\* is the chat completion call, or else the update of the record with the
\* deterministic output.  gen is the generator as the call found it and
\* rejected counts the updates of the task that the database rejected.
queueExplanation(rec, documentName, previousContent, newContent) ==
    Append(explQueue, [recordId |-> rec.id, changeType |-> rec.changeType,
                       documentName |-> documentName,
                       previousContent |-> previousContent,
                       newContent |-> newContent,
                       gen |-> generator,
                       pc |-> IF delegates(generator, rec.changeType)
                              THEN "store" ELSE "ai",
                       outcome |-> "none", error |-> Null, rejected |-> 0])

\* the ExplanationInput of a task
inputOf(t) ==
    ExplanationInput(t.changeType, stringify(changeRecords[t.recordId].reason),
                     t.documentName, t.previousContent, t.newContent)

\* the status chosen by the flag alone
primaryStatusByFlagOnly(t) ==
    IF generator.enabled THEN "generated" ELSE "skipped"

\* the status generateAndStoreExplanation stores with the primary output
primaryStatus(t) ==
    IF generator.enabled \/ t.changeType \in {"baseline", "renamed", "deleted"}
    THEN "generated" ELSE "skipped"

AiFailed(errorMessage) == "AI failed: " \o errorMessage

\* the tasks launched so far, among the tasks a behaviour can launch: one
\* for the first run's baseline record, two for each listed file (renamed and
\* modified) and one for the deletion of the stored document
TaskIds == 1..(2 + 2 * MaxExplFiles)
Tasks == {q \in TaskIds : q <= Len(explQueue)}

explOthers == <<schedVars, ingestionRuns, documents, versions, nextVersionId,
                runs, budget, auth>>

\* initializeOpenAI(): the dynamic import settles after the generator was
\* constructed, which the first queueExplanation does
InitializeOpenAI ==
    /\ generator.enabled /\ ~generator.openai
    /\ explQueue # <<>>
    /\ generator' = [generator EXCEPT !.openai = TRUE]
    /\ UNCHANGED <<explOthers, changeRecords, explQueue, dbFailures, backfills,
                   pureVars>>

\* await this.openai.chat.completions.create(...): the call ends; on an error
\* generateExplanation's catch returns the deterministic output; then
\* generateAndStoreExplanation asks for the update of the record
AiResponds(q) ==
    /\ q \in Tasks
    /\ explQueue[q].pc = "ai"
    /\ \E outcome \in AiOutcomes :
          explQueue' = [explQueue EXCEPT ![q].outcome = outcome,
                                         ![q].pc = "store"]
    /\ UNCHANGED <<explOthers, changeRecords, dbFailures, explVars>>

\* await db.updateChangeRecordExplanation(id, {text, bullets, meta, status})
StoreExplanation(q) ==
    /\ q \in Tasks
    /\ explQueue[q].pc = "store"
    /\ LET t == explQueue[q]
           output == ReplitGenerate(t.gen, inputOf(t), t.outcome).output
       IN  changeRecords' = updateChangeRecordExplanation(changeRecords,
               t.recordId,
               [explanationText |-> output.text,
                explanationBullets |-> output.what_changed,
                explanationMeta |-> storedMeta(output.meta, FALSE, FALSE),
                explanationStatus |-> primaryStatus(t)])
    /\ explQueue' = [explQueue EXCEPT ![q].pc = "done"]
    /\ UNCHANGED <<explOthers, dbFailures, explVars>>

\* the update rejects and the catch block goes to the failed update at once
StoreExplanationFailsNoFallback(q) ==
    /\ q \in Tasks
    /\ explQueue[q].pc = "store"
    /\ dbFailures < MaxDbFailures
    /\ dbFailures' = dbFailures + 1
    /\ explQueue' = [explQueue EXCEPT ![q].error = DbError,
                                      ![q].rejected = @ + 1,
                                      ![q].pc = "failed"]
    /\ UNCHANGED <<explOthers, changeRecords, explVars>>

\* the update rejects: catch; the deterministic generator makes the fallback
\* output and the update of the record is asked for again
StoreExplanationFails(q) ==
    /\ q \in Tasks
    /\ explQueue[q].pc = "store"
    /\ dbFailures < MaxDbFailures
    /\ dbFailures' = dbFailures + 1
    /\ explQueue' = [explQueue EXCEPT ![q].error = DbError,
                                      ![q].rejected = @ + 1,
                                      ![q].pc = "fallback"]
    /\ UNCHANGED <<explOthers, changeRecords, explVars>>

\* await db.updateChangeRecordExplanation(id, {fallback output, generated,
\* explanationError: 'AI failed: ...'})
StoreFallback(q) ==
    /\ q \in Tasks
    /\ explQueue[q].pc = "fallback"
    /\ LET t == explQueue[q]
           fallbackOutput == DeterministicGenerate(inputOf(t))
       IN  changeRecords' = updateChangeRecordExplanation(changeRecords,
               t.recordId,
               [explanationText |-> fallbackOutput.text,
                explanationBullets |-> fallbackOutput.what_changed,
                explanationMeta |-> storedMeta(fallbackOutput.meta, TRUE, FALSE),
                explanationStatus |-> "generated",
                explanationError |-> AiFailed(t.error)])
    /\ explQueue' = [explQueue EXCEPT ![q].pc = "done"]
    /\ UNCHANGED <<explOthers, dbFailures, explVars>>

\* the fallback's update rejects: the inner catch asks for the failed update
StoreFallbackFails(q) ==
    /\ q \in Tasks
    /\ explQueue[q].pc = "fallback"
    /\ dbFailures < MaxDbFailures
    /\ dbFailures' = dbFailures + 1
    /\ explQueue' = [explQueue EXCEPT ![q].rejected = @ + 1,
                                      ![q].pc = "failed"]
    /\ UNCHANGED <<explOthers, changeRecords, explVars>>

\* await db.updateChangeRecordExplanation(id, {failed, explanationError})
StoreFailed(q) ==
    /\ q \in Tasks
    /\ explQueue[q].pc = "failed"
    /\ changeRecords' = updateChangeRecordExplanation(changeRecords,
           explQueue[q].recordId,
           [explanationStatus |-> "failed",
            explanationError |-> explQueue[q].error])
    /\ explQueue' = [explQueue EXCEPT ![q].pc = "done"]
    /\ UNCHANGED <<explOthers, dbFailures, explVars>>

\* the failed update rejects too and the rejection reaches the run that
\* made the record, whose catch block marks it failed
StoreFailedFailsEscalates(q) ==
    /\ q \in Tasks
    /\ explQueue[q].pc = "failed"
    /\ dbFailures < MaxDbFailures
    /\ dbFailures' = dbFailures + 1
    /\ explQueue' = [explQueue EXCEPT ![q].rejected = @ + 1,
                                      ![q].pc = "done"]
    /\ ingestionRuns' = updateIngestionRun(ingestionRuns,
                            changeRecords[explQueue[q].recordId].run,
                            [status |-> "failed", error |-> DbError])
    /\ UNCHANGED <<schedVars, documents, versions, nextVersionId, runs, budget,
                   changeRecords, explVars>>

\* the failed update rejects too: generateAndStoreExplanation rejects and
\* queueExplanation's catch logs it
StoreFailedFails(q) ==
    /\ q \in Tasks
    /\ explQueue[q].pc = "failed"
    /\ dbFailures < MaxDbFailures
    /\ dbFailures' = dbFailures + 1
    /\ explQueue' = [explQueue EXCEPT ![q].rejected = @ + 1,
                                      ![q].pc = "done"]
    /\ UNCHANGED <<explOthers, changeRecords, explVars>>

TaskStep(q) ==
    \/ AiResponds(q)
    \/ StoreExplanation(q) \/ StoreExplanationFails(q)
    \/ StoreFallback(q) \/ StoreFallbackFails(q)
    \/ StoreFailed(q) \/ StoreFailedFails(q)

\* a backfill that is not running: never called, or over
idle(b) == backfills[b].pc \in {"none", "done"}

\* GET /api/dashboard: backfillNullExplanations() is called and not awaited;
\* it runs up to its await db.getChangeRecordsWithNullExplanations().  At
\* most MaxBackfills calls are running at a time.
GetDashboard ==
    /\ \E b \in BackfillIds : idle(b)
    /\ LET b == CHOOSE c \in BackfillIds :
                    /\ idle(c)
                    /\ \A d \in BackfillIds : idle(d) => c <= d
       IN  backfills' = [backfills EXCEPT ![b] = [NoBackfill EXCEPT !.pc = "scan"]]
    /\ UNCHANGED <<explOthers, changeRecords, explQueue, dbFailures, generator,
                   pureVars>>

\* the backfill after the operation it awaited: the next record's
\* deterministic output is made and its update asked for, or the loop is over
backfillNext(bf, records, at, backfilled) ==
    IF at <= Len(records)
    THEN [pc |-> "update", records |-> records, at |-> at,
          backfilled |-> backfilled]
    ELSE [pc |-> "done", records |-> <<>>, at |-> 0, backfilled |-> backfilled]

\* const records = await db.getChangeRecordsWithNullExplanations()
BackfillScan(b) ==
    /\ backfills[b].pc = "scan"
    /\ backfills' = [backfills EXCEPT ![b] =
           backfillNext(@, getChangeRecordsWithNullExplanations, 1, 0)]
    /\ UNCHANGED <<explOthers, changeRecords, explQueue, dbFailures, generator,
                   pureVars>>

\* the scan rejects: backfillNullExplanations rejects, the route logs it
BackfillScanFails(b) ==
    /\ backfills[b].pc = "scan"
    /\ dbFailures < MaxDbFailures
    /\ dbFailures' = dbFailures + 1
    /\ backfills' = [backfills EXCEPT ![b] = backfillNext(@, <<>>, 1, 0)]
    /\ UNCHANGED <<explOthers, changeRecords, explQueue, generator, pureVars>>

\* the ExplanationInput backfill builds for a record: the name is
\* reason.lastKnownName || reason.newName, no content
backfillInput(rec) ==
    ExplanationInput(rec.changeType, stringify(rec.reason),
                     orElse(rec.reason.lastKnownName, rec.reason.newName),
                     Null, Null)

\* the loop going on to the next record with no update of this one
BackfillStoreSkipsUpdate(b) ==
    /\ backfills[b].pc = "update"
    /\ backfills' = [backfills EXCEPT ![b] =
           backfillNext(@, @.records, @.at + 1, @.backfilled + 1)]
    /\ UNCHANGED <<explOthers, changeRecords, explQueue, dbFailures, generator,
                   pureVars>>

\* await db.updateChangeRecordExplanation(record.id, {deterministic output,
\* meta.backfilled, generated}); backfilled++
BackfillStore(b) ==
    /\ backfills[b].pc = "update"
    /\ LET bf == backfills[b]
           id == bf.records[bf.at]
           output == DeterministicGenerate(backfillInput(changeRecords[id]))
       IN  /\ changeRecords' = updateChangeRecordExplanation(changeRecords, id,
                  [explanationText |-> output.text,
                   explanationBullets |-> output.what_changed,
                   explanationMeta |-> storedMeta(output.meta, FALSE, TRUE),
                   explanationStatus |-> "generated"])
           /\ backfills' = [backfills EXCEPT ![b] =
                  backfillNext(bf, bf.records, bf.at + 1, bf.backfilled + 1)]
    /\ UNCHANGED <<explOthers, explQueue, dbFailures, generator, pureVars>>

\* the update rejects: the loop's catch logs it and goes on
BackfillStoreFails(b) ==
    /\ backfills[b].pc = "update"
    /\ dbFailures < MaxDbFailures
    /\ dbFailures' = dbFailures + 1
    /\ backfills' = [backfills EXCEPT ![b] =
           backfillNext(@, @.records, @.at + 1, @.backfilled)]
    /\ UNCHANGED <<explOthers, changeRecords, explQueue, generator, pureVars>>

BackfillStep(b) ==
    \/ BackfillScan(b) \/ BackfillScanFails(b)
    \/ BackfillStore(b) \/ BackfillStoreFails(b)

\* ------------------------------------------------- starting a manual run
\* POST /api/ingestion-runs, up to its await db.createIngestionRun(run); the
\* route looks at no guard
PostIngestionRun ==
    /\ CanStartRun
    /\ runs' = [runs EXCEPT ![FreshRunId] =
                   [NoRun EXCEPT !.origin = "post", !.pc = "createRun"]]
    /\ budget' = [budget EXCEPT !.runs = @ - 1]
    /\ UNCHANGED explVars
    /\ UNCHANGED <<schedVars, dbVars, dbFailures>>

\* db.createIngestionRun(run) with status pending, awaited by the route or by
\* runIngestionForScheduler; startIngestion then runs to its first await
CreateRun(r) ==
    /\ runs[r].pc = "createRun"
    /\ ingestionRuns' = [ingestionRuns EXCEPT ![r] =
                            [status |-> "pending", documentsProcessed |-> 0,
                             changesDetected |-> 0, error |-> Null,
                             updates |-> 0]]
    /\ runs' = [runs EXCEPT ![r].pc = "auth"]
    /\ UNCHANGED <<schedVars, documents, versions, changeRecords, nextVersionId,
                   explQueue, dbFailures>>
    /\ UNCHANGED <<budget, explVars>>

\* db.createIngestionRun rejects: the route answers 500, the scheduler's
\* callback throws; startIngestion is not called
CreateRunFails(r) ==
    /\ runs[r].pc = "createRun"
    /\ dbFailures < MaxDbFailures
    /\ dbFailures' = dbFailures + 1
    /\ runs' = Throw(r, runs)
    /\ EndOfRunBody(r, TRUE)
    /\ UNCHANGED <<config, timer, dbVars>>
    /\ UNCHANGED <<budget, explVars>>

\* ------------------------------------------------------- startIngestion
NotAuthenticated == "Not authenticated with Google Drive"

\* the answer of the auth collaborator not looked at
AuthNotChecked(r) ==
    /\ runs[r].pc = "auth"
    /\ \E authenticated \in BOOLEAN :
          runs' = [runs EXCEPT ![r].isAuthenticated = authenticated,
                               ![r].pc = "setInProgress"]
    /\ UNCHANGED <<schedVars, dbVars, dbFailures>>
    /\ UNCHANGED <<budget, explVars>>

\* const isAuthenticated = await authManager.isAuthenticated(): the answer is
\* the auth collaborator's
Auth(r) ==
    /\ runs[r].pc = "auth"
    /\ \E authenticated \in BOOLEAN :
          runs' = [runs EXCEPT ![r].isAuthenticated = authenticated,
                               ![r].pc = IF authenticated THEN "setInProgress"
                                         ELSE "authFailed"]
    /\ UNCHANGED <<schedVars, dbVars, dbFailures>>
    /\ UNCHANGED <<budget, explVars>>

\* the run body returns: the run is over and its locals are gone
Return(r, rs) ==
    [rs EXCEPT ![r] = [NoRun EXCEPT !.pc = "done", !.outcome = "returned"]]

\* the failed update of the auth check without its return
AuthFailedNoReturn(r) ==
    /\ runs[r].pc = "authFailed"
    /\ ingestionRuns' = updateIngestionRun(ingestionRuns, r,
                            [status |-> "failed", error |-> NotAuthenticated])
    /\ runs' = [runs EXCEPT ![r].pc = "setInProgress"]
    /\ UNCHANGED <<schedVars, documents, versions, changeRecords,
                   nextVersionId, explQueue, dbFailures>>
    /\ UNCHANGED <<budget, explVars>>

\* updateIngestionRun(failed, 'Not authenticated ...'); return
AuthFailed(r) ==
    /\ runs[r].pc = "authFailed"
    /\ ingestionRuns' = updateIngestionRun(ingestionRuns, r,
                            [status |-> "failed", error |-> NotAuthenticated])
    /\ runs' = Return(r, runs)
    /\ EndOfRunBody(r, FALSE)
    /\ UNCHANGED <<config, timer, documents, versions, changeRecords,
                   nextVersionId, explQueue, dbFailures>>
    /\ UNCHANGED <<budget, explVars>>

\* updateIngestionRun(in_progress)
SetInProgress(r) ==
    /\ runs[r].pc = "setInProgress"
    /\ ingestionRuns' = updateIngestionRun(ingestionRuns, r,
                            [status |-> "in_progress"])
    /\ runs' = [runs EXCEPT ![r].pc = "count"]
    /\ UNCHANGED <<schedVars, documents, versions, changeRecords, nextVersionId,
                   explQueue, dbFailures>>
    /\ UNCHANGED <<budget, explVars>>

\* isBaselineRun of index.ts 374
isBaseline(totalDocCount) == totalDocCount = 0

\* const totalDocCount = await db.getTotalDocumentCount(); isBaselineRun
Count(r) ==
    /\ runs[r].pc = "count"
    /\ runs' = [runs EXCEPT ![r].totalDocCount = getTotalDocumentCount,
                            ![r].isBaselineRun = isBaseline(getTotalDocumentCount),
                            ![r].activeAtCount =
                                {documents[i].id : i \in {j \in 1..Len(documents) :
                                                            ~documents[j].isDeleted}},
                            ![r].pc = "list"]
    /\ UNCHANGED <<schedVars, dbVars, dbFailures>>
    /\ UNCHANGED <<budget, explVars>>

\* const files = await googleDriveService.listFiles(...): the listing has
\* filesLeft entries, each drawn when the loop reaches it
List(r) ==
    /\ runs[r].pc = "list"
    /\ \E n \in 0..MaxFiles :
          /\ n <= budget.files
          /\ runs' = [runs EXCEPT ![r].filesLeft = n, ![r].pc = "loop"]
          /\ budget' = [budget EXCEPT !.files = @ - n]
          /\ UNCHANGED explVars
    /\ UNCHANGED <<schedVars, dbVars, dbFailures>>

\* the loop with the id of the file noted before the test of its type
LoopNotesIdFirst(r) ==
    /\ runs[r].pc = "loop"
    /\ IF runs[r].filesLeft = 0
       THEN runs' = [runs EXCEPT ![r].pc = "getActive"]
       ELSE \E f \in Files :
              LET base == [runs[r] EXCEPT !.filesLeft = @ - 1, !.file = f,
                              !.listedIds = @ \cup {f.id},
                              !.currentDriveIds = @ \cup {f.id},
                              !.content = "", !.hash = NoHash,
                              !.document = NoDoc, !.versionId = 0,
                              !.prevContent = Null, !.recordId = 0,
                              !.branch = "", !.fileRecs = <<>>,
                              !.fileVers = <<>>]
              IN  runs' = [runs EXCEPT ![r] =
                     IF f.mimeType \notin supportedMimes
                     THEN base
                     ELSE [base EXCEPT !.docsProcessed = @ + 1,
                                       !.listedSupported = @ + 1,
                                       !.pc = "extract"]]
    /\ UNCHANGED <<schedVars, dbVars, dbFailures>>
    /\ UNCHANGED <<budget, explVars>>

\* the error of a failed request of the listing
DriveApiError == "Google Drive API error"

\* a failed request of the listing that leaves listFiles as an exception
ListThrows(r) ==
    /\ runs[r].pc = "list"
    /\ runs' = [runs EXCEPT ![r].listFailed = TRUE,
                            ![r].error = DriveApiError,
                            ![r].pc = "catch"]
    /\ UNCHANGED <<schedVars, dbVars, dbFailures>>
    /\ UNCHANGED <<budget, explVars>>

\* listFiles when a request for a folder of the tree fails (or no access
\* token is set): recursiveListFiles catches the error and logs it, the
\* entries of that folder are not pushed, and listFiles returns the
\* accumulator with the filesLeft entries pushed for the other folders
ListPartly(r) ==
    /\ runs[r].pc = "list"
    /\ \E n \in 0..MaxFiles :
          /\ n <= budget.files
          /\ runs' = [runs EXCEPT ![r].filesLeft = n,
                                  ![r].listFailed = TRUE,
                                  ![r].pc = "loop"]
          /\ budget' = [budget EXCEPT !.files = @ - n]
          /\ UNCHANGED explVars
    /\ UNCHANGED <<schedVars, dbVars, dbFailures>>

\* for (const file of files): the next file, skipped when its type is not
\* supported, else counted and sent to extractContent; after the last file
\* the run asks for the active documents
Loop(r) ==
    /\ runs[r].pc = "loop"
    /\ IF runs[r].filesLeft = 0
       THEN runs' = [runs EXCEPT ![r].pc = "getActive"]
       ELSE \E f \in Files :
              LET base == [runs[r] EXCEPT !.filesLeft = @ - 1, !.file = f,
                              !.listedIds = @ \cup {f.id},
                              !.content = "", !.hash = NoHash,
                              !.document = NoDoc, !.versionId = 0,
                              !.prevContent = Null, !.recordId = 0,
                              !.branch = "", !.fileRecs = <<>>,
                              !.fileVers = <<>>]
              IN  runs' = [runs EXCEPT ![r] =
                     IF f.mimeType \notin supportedMimes
                     THEN base
                     ELSE [base EXCEPT !.currentDriveIds = @ \cup {f.id},
                                       !.docsProcessed = @ + 1,
                                       !.listedSupported = @ + 1,
                                       !.pc = "extract"]]
    /\ UNCHANGED <<schedVars, dbVars, dbFailures>>
    /\ UNCHANGED <<budget, explVars>>

\* a failed extraction that leaves the loop as an exception
ExtractUncaught(r) ==
    /\ runs[r].pc = "extract"
    /\ LET content == extractContent(runs[r].file)
       IN  runs' = [runs EXCEPT ![r] =
              IF content = ""
              THEN [@ EXCEPT !.error = DbError, !.pc = "catch"]
              ELSE [@ EXCEPT !.content = content,
                             !.hash = fileHash(runs[r].file, content),
                             !.pc = "lookup"]]
    /\ UNCHANGED <<schedVars, dbVars, dbFailures>>
    /\ UNCHANGED <<budget, explVars>>

\* const content = await extractContent(file); if (!content) continue; hash
Extract(r) ==
    /\ runs[r].pc = "extract"
    /\ LET content == extractContent(runs[r].file)
       IN  runs' = [runs EXCEPT ![r] =
              IF content = ""
              THEN [@ EXCEPT !.skippedIds = @ \cup {runs[r].file.id},
                             !.pc = "loop"]
              ELSE [@ EXCEPT !.content = content,
                             !.hash = fileHash(runs[r].file, content),
                             !.pc = "lookup"]]
    /\ UNCHANGED <<schedVars, dbVars, dbFailures>>
    /\ UNCHANGED <<budget, explVars>>

\* const renamed = file.name !== document.fileName, over the run's locals u
renamed(u) == u.file.name # u.document.fileName

\* a change of modifiedTime taken for a change of content
contentChangedOrTouched(u) ==
    u.hash # u.document.currentHash \/ u.file.modifiedTime # u.document.lastModified

\* const contentChanged = hash !== document.currentHash
contentChanged(u) == u.hash # u.document.currentHash

\* the content check made an else-branch of the rename check
AfterRenameElse(u) == "loop"

\* if (contentChanged) after the rename branch
AfterRename(u) == IF contentChanged(u) THEN "createVer" ELSE "loop"

\* where the rename and content checks of index.ts 492-519 send the run
AfterLookup(u) == IF renamed(u) THEN "renameRec" ELSE AfterRename(u)

\* let document = await db.getDocumentByGoogleDriveId(file.id)
Lookup(r) ==
    /\ runs[r].pc = "lookup"
    /\ LET doc == getDocumentByGoogleDriveId(runs[r].file.id)
           u == [runs[r] EXCEPT !.document = doc,
                                !.branch = IF doc.id = 0 THEN "new"
                                           ELSE IF doc.isDeleted THEN "reappeared"
                                           ELSE "active"]
       IN  runs' = [runs EXCEPT ![r] =
              [u EXCEPT !.pc = IF doc.id = 0 THEN "createDoc"
                               ELSE IF doc.isDeleted THEN "undelete"
                               ELSE AfterLookup(u)]]
    /\ UNCHANGED <<schedVars, dbVars, dbFailures>>
    /\ UNCHANGED <<budget, explVars>>

\* a documents table that takes any googleDriveId
uniqueViolationNever(gid) == FALSE

\* documents.googleDriveId TEXT UNIQUE NOT NULL: the insert of a second row
\* with the same googleDriveId rejects
uniqueViolation(gid) == getDocumentByGoogleDriveId(gid).id # 0

\* await db.createDocument(document); a rejected insert goes to the catch block
CreateDoc(r) ==
    /\ runs[r].pc = "createDoc"
    /\ LET f == runs[r].file
           doc == [id |-> Len(documents) + 1, googleDriveId |-> f.id,
                   fileName |-> f.name, mimeType |-> f.mimeType,
                   lastModified |-> f.modifiedTime,
                   currentVersionId |-> nextVersionId,
                   currentHash |-> runs[r].hash,
                   isDeleted |-> FALSE, deletedAt |-> Null]
       IN  IF uniqueViolation(f.id)
           THEN /\ runs' = [runs EXCEPT ![r].pc = "catch", ![r].error = DbError]
                /\ UNCHANGED <<documents, nextVersionId>>
           ELSE /\ documents' = Append(documents, doc)
                /\ nextVersionId' = nextVersionId + 1
                /\ runs' = [runs EXCEPT ![r].document = doc,
                                        ![r].docsCreated = @ + 1,
                                        ![r].versionId = nextVersionId,
                                        ![r].pc = "createInitVer"]
    /\ UNCHANGED <<schedVars, ingestionRuns, versions, changeRecords, explQueue,
                   dbFailures>>
    /\ UNCHANGED <<budget, explVars>>

\* the created record is left out of a new document's branch
AfterInitVerNoRecord(u) == "loop"

\* if (!isBaselineRun) around the created record of a new document
AfterInitVer(u) == IF u.isBaselineRun THEN "loop" ELSE "createdRec"

\* await db.createDocumentVersion(version) of a new document; a baseline run
\* makes no created record
CreateInitVer(r) ==
    /\ runs[r].pc = "createInitVer"
    /\ versions' = Append(versions, [id |-> runs[r].versionId,
                                     documentId |-> runs[r].document.id,
                                     hash |-> runs[r].hash,
                                     content |-> runs[r].content])
    /\ runs' = [runs EXCEPT ![r].fileVers = Append(@, runs[r].versionId),
                            ![r].pc = AfterInitVer(runs[r])]
    /\ UNCHANGED <<schedVars, ingestionRuns, documents, changeRecords,
                   nextVersionId, explQueue, dbFailures>>
    /\ UNCHANGED <<budget, explVars>>

\* await db.createChangeRecord(created); queueExplanation; changesDetected++
CreatedRec(r) ==
    /\ runs[r].pc = "createdRec"
    /\ LET rec == ChangeRecord(r, runs[r].document.id, 0, runs[r].versionId,
                      "created", "added to the system", NoReason, "medium")
       IN  /\ changeRecords' = Append(changeRecords, rec)
           /\ explQueue' = queueExplanation(rec, runs[r].file.name, Null,
                                            runs[r].content)
           /\ runs' = [runs EXCEPT ![r].changesDetected = @ + 1,
                                   ![r].fileRecs = Append(@, rec.id),
                                   ![r].pc = "loop"]
    /\ UNCHANGED <<schedVars, ingestionRuns, documents, versions, nextVersionId,
                   dbFailures>>
    /\ UNCHANGED <<budget, explVars>>

\* reappearance: await db.updateDocument(id, {isDeleted: false, deletedAt})
Undelete(r) ==
    /\ runs[r].pc = "undelete"
    /\ documents' = updateDocument(documents, runs[r].document.id,
                        [isDeleted |-> FALSE, deletedAt |-> Null])
    /\ runs' = [runs EXCEPT ![r].pc = IF runs[r].isBaselineRun
                                      THEN AfterLookup(runs[r])
                                      ELSE "reappearRec"]
    /\ UNCHANGED <<schedVars, ingestionRuns, versions, changeRecords,
                   nextVersionId, explQueue, dbFailures>>
    /\ UNCHANGED <<budget, explVars>>

\* await db.createChangeRecord(created, reappeared); queueExplanation;
\* changesDetected++; then the rename and content checks
ReappearRec(r) ==
    /\ runs[r].pc = "reappearRec"
    /\ LET rec == ChangeRecord(r, runs[r].document.id, 0,
                      runs[r].document.currentVersionId, "created",
                      "reappeared in the folder", NoReason, "medium")
       IN  /\ changeRecords' = Append(changeRecords, rec)
           /\ explQueue' = queueExplanation(rec, runs[r].file.name, Null,
                                            runs[r].content)
           /\ runs' = [runs EXCEPT ![r].changesDetected = @ + 1,
                                   ![r].fileRecs = Append(@, rec.id),
                                   ![r].pc = AfterLookup(runs[r])]
    /\ UNCHANGED <<schedVars, ingestionRuns, documents, versions, nextVersionId,
                   dbFailures>>
    /\ UNCHANGED <<budget, explVars>>

\* await db.createChangeRecord(renameRecord); queueExplanation(renameRecord, name)
RenameRec(r) ==
    /\ runs[r].pc = "renameRec"
    /\ LET rec == ChangeRecord(r, runs[r].document.id, 0,
                      runs[r].document.currentVersionId, "renamed", "renamed",
                      [NoReason EXCEPT !.nameChanged = TRUE,
                                       !.oldName = runs[r].document.fileName,
                                       !.newName = runs[r].file.name], "low")
       IN  /\ changeRecords' = Append(changeRecords, rec)
           /\ explQueue' = queueExplanation(rec, runs[r].file.name, Null, Null)
           /\ runs' = [runs EXCEPT ![r].fileRecs = Append(@, rec.id),
                                   ![r].pc = "renameUpd"]
    /\ UNCHANGED <<schedVars, ingestionRuns, documents, versions, nextVersionId,
                   dbFailures>>
    /\ UNCHANGED <<budget, explVars>>

\* await db.updateDocument(id, {fileName, lastModified}); changesDetected++
RenameUpd(r) ==
    /\ runs[r].pc = "renameUpd"
    /\ documents' = updateDocument(documents, runs[r].document.id,
                        [fileName |-> runs[r].file.name,
                         lastModified |-> runs[r].file.modifiedTime])
    /\ runs' = [runs EXCEPT ![r].changesDetected = @ + 1,
                            ![r].pc = AfterRename(runs[r])]
    /\ UNCHANGED <<schedVars, ingestionRuns, versions, changeRecords,
                   nextVersionId, explQueue, dbFailures>>
    /\ UNCHANGED <<budget, explVars>>

\* await db.createDocumentVersion(version) of a changed document
CreateVer(r) ==
    /\ runs[r].pc = "createVer"
    /\ versions' = Append(versions, [id |-> nextVersionId,
                                     documentId |-> runs[r].document.id,
                                     hash |-> runs[r].hash,
                                     content |-> runs[r].content])
    /\ nextVersionId' = nextVersionId + 1
    /\ runs' = [runs EXCEPT ![r].versionId = nextVersionId,
                            ![r].fileVers = Append(@, nextVersionId),
                            ![r].pc = "modRec"]
    /\ UNCHANGED <<schedVars, ingestionRuns, documents, changeRecords, explQueue,
                   dbFailures>>
    /\ UNCHANGED <<budget, explVars>>

\* await db.createChangeRecord(modified)
ModRec(r) ==
    /\ runs[r].pc = "modRec"
    /\ LET rec == ChangeRecord(r, runs[r].document.id,
                      runs[r].document.currentVersionId, runs[r].versionId,
                      "modified", "content has changed",
                      [NoReason EXCEPT !.contentChanged = TRUE], "high")
       IN  /\ changeRecords' = Append(changeRecords, rec)
           /\ runs' = [runs EXCEPT ![r].fileRecs = Append(@, rec.id),
                                   ![r].recordId = rec.id,
                                   ![r].pc = "getPrev"]
    /\ UNCHANGED <<schedVars, ingestionRuns, documents, versions, nextVersionId,
                   explQueue, dbFailures>>
    /\ UNCHANGED <<budget, explVars>>

\* const prevVersion = await db.getDocumentVersion(document.currentVersionId);
\* queueExplanation(changeRecord, file.name, prevVersion?.content, content)
GetPrev(r) ==
    /\ runs[r].pc = "getPrev"
    /\ explQueue' = queueExplanation(
                        [id |-> runs[r].recordId, changeType |-> "modified"],
                        runs[r].file.name,
                        getDocumentVersion(runs[r].document.currentVersionId).content,
                        runs[r].content)
    /\ runs' = [runs EXCEPT ![r].pc = "modUpd"]
    /\ UNCHANGED <<schedVars, ingestionRuns, documents, versions, changeRecords,
                   nextVersionId, dbFailures>>
    /\ UNCHANGED <<budget, explVars>>

\* await db.updateDocument(id, {currentVersionId, currentHash, lastModified});
\* changesDetected++
ModUpd(r) ==
    /\ runs[r].pc = "modUpd"
    /\ documents' = updateDocument(documents, runs[r].document.id,
                        [currentVersionId |-> runs[r].versionId,
                         currentHash |-> runs[r].hash,
                         lastModified |-> runs[r].file.modifiedTime])
    /\ runs' = [runs EXCEPT ![r].changesDetected = @ + 1, ![r].pc = "loop"]
    /\ UNCHANGED <<schedVars, ingestionRuns, versions, changeRecords,
                   nextVersionId, explQueue, dbFailures>>
    /\ UNCHANGED <<budget, explVars>>

\* the deletion loop left after the first missing document
missingFirstOnly(active, currentDriveIds) ==
    LET m == SelectSeq(active, LAMBDA d : d.googleDriveId \notin currentDriveIds)
    IN  IF m = <<>> THEN <<>> ELSE <<Head(m)>>

\* the active documents the deletion loop acts on: those whose googleDriveId
\* is not in currentDriveIds (the others are passed over without an await)
missing(active, currentDriveIds) ==
    SelectSeq(active, LAMBDA d : d.googleDriveId \notin currentDriveIds)

\* the baseline record written whatever the listing held
baselineDueAlways(u) == u.isBaselineRun

\* if (isBaselineRun && docsProcessed > 0)
baselineDue(u) == u.isBaselineRun /\ u.docsProcessed > 0

\* after the deletion loop
AfterDeletion(u) == IF baselineDue(u) THEN "baselineRec" ELSE "complete"

\* const activeDocuments = await db.getActiveDocuments()
GetActive(r) ==
    /\ runs[r].pc = "getActive"
    /\ LET gone == missing(getActiveDocuments, runs[r].currentDriveIds)
       IN  runs' = [runs EXCEPT ![r].activeDocuments = gone,
                                ![r].pc = IF gone # <<>> THEN "delRec"
                                          ELSE AfterDeletion(runs[r])]
    /\ UNCHANGED <<schedVars, dbVars, dbFailures>>
    /\ UNCHANGED <<budget, explVars>>

\* await db.createChangeRecord(deleteRecord); queueExplanation(deleteRecord, name)
DelRec(r) ==
    /\ runs[r].pc = "delRec"
    /\ LET doc == Head(runs[r].activeDocuments)
           rec == ChangeRecord(r, doc.id, doc.currentVersionId, 0, "deleted",
                      "removed from folder or deleted",
                      [NoReason EXCEPT !.lastSeenAt = doc.lastModified,
                                       !.lastKnownName = doc.fileName], "medium")
       IN  /\ changeRecords' = Append(changeRecords, rec)
           /\ explQueue' = queueExplanation(rec, doc.fileName, Null, Null)
           /\ runs' = [runs EXCEPT ![r].pc = "delUpd"]
    /\ UNCHANGED <<schedVars, ingestionRuns, documents, versions, nextVersionId,
                   dbFailures>>
    /\ UNCHANGED <<budget, explVars>>

\* await db.updateDocument(doc.id, {isDeleted: true, deletedAt: now});
\* changesDetected++; then the next missing document
DelUpd(r) ==
    /\ runs[r].pc = "delUpd"
    /\ documents' = updateDocument(documents, Head(runs[r].activeDocuments).id,
                        [isDeleted |-> TRUE, deletedAt |-> "now"])
    /\ LET u == [runs[r] EXCEPT !.changesDetected = @ + 1,
                                !.activeDocuments = Tail(@)]
       IN  runs' = [runs EXCEPT ![r] =
              [u EXCEPT !.pc = IF u.activeDocuments # <<>> THEN "delRec"
                               ELSE AfterDeletion(u)]]
    /\ UNCHANGED <<schedVars, ingestionRuns, versions, changeRecords,
                   nextVersionId, explQueue, dbFailures>>
    /\ UNCHANGED <<budget, explVars>>

\* await db.createChangeRecord(baselineRecord); queueExplanation;
\* changesDetected = 1
BaselineRec(r) ==
    /\ runs[r].pc = "baselineRec"
    /\ LET rec == ChangeRecord(r, 0, 0, 0, "baseline", "Baseline established",
                      [NoReason EXCEPT !.baselineDocCount = runs[r].docsProcessed],
                      "low")
       IN  /\ changeRecords' = Append(changeRecords, rec)
           /\ explQueue' = queueExplanation(rec, Null, Null, Null)
           /\ runs' = [runs EXCEPT ![r].changesDetected = 1,
                                   ![r].pc = "complete"]
    /\ UNCHANGED <<schedVars, ingestionRuns, documents, versions, nextVersionId,
                   dbFailures>>
    /\ UNCHANGED <<budget, explVars>>

\* await db.updateIngestionRun(completed, documentsProcessed, changesDetected)
Complete(r) ==
    /\ runs[r].pc = "complete"
    /\ ingestionRuns' = updateIngestionRun(ingestionRuns, r,
                            [status |-> "completed",
                             documentsProcessed |-> runs[r].docsProcessed,
                             changesDetected |-> runs[r].changesDetected])
    /\ runs' = Return(r, runs)
    /\ EndOfRunBody(r, FALSE)
    /\ UNCHANGED <<config, timer, documents, versions, changeRecords,
                   nextVersionId, explQueue, dbFailures>>
    /\ UNCHANGED <<budget, explVars>>

\* the awaited database operations inside startIngestion's try block
TryOps == {"authFailed", "setInProgress", "count", "lookup", "createDoc",
           "createInitVer", "createdRec", "undelete", "reappearRec",
           "renameRec", "renameUpd", "createVer", "modRec", "getPrev",
           "modUpd", "getActive", "delRec", "delUpd", "baselineRec", "complete"}

\* one of them rejects: control passes to the catch block, nothing is undone
DbOperationFails(r) ==
    /\ runs[r].pc \in TryOps
    /\ dbFailures < MaxDbFailures
    /\ dbFailures' = dbFailures + 1
    /\ runs' = [runs EXCEPT ![r].pc = "catch", ![r].error = DbError]
    /\ UNCHANGED <<schedVars, dbVars>>
    /\ UNCHANGED <<budget, explVars>>

\* catch: await db.updateIngestionRun(failed, error.message)
Catch(r) ==
    /\ runs[r].pc = "catch"
    /\ ingestionRuns' = updateIngestionRun(ingestionRuns, r,
                            [status |-> "failed", error |-> runs[r].error])
    /\ runs' = Return(r, runs)
    /\ EndOfRunBody(r, FALSE)
    /\ UNCHANGED <<config, timer, documents, versions, changeRecords,
                   nextVersionId, explQueue, dbFailures>>
    /\ UNCHANGED <<budget, explVars>>

\* the update inside the catch block rejects too: startIngestion throws
CatchFails(r) ==
    /\ runs[r].pc = "catch"
    /\ dbFailures < MaxDbFailures
    /\ dbFailures' = dbFailures + 1
    /\ runs' = Throw(r, runs)
    /\ EndOfRunBody(r, TRUE)
    /\ UNCHANGED <<config, timer, dbVars>>
    /\ UNCHANGED <<budget, explVars>>

\* ------------------------------------------------------------------ Next
\* the steps of a run inside startIngestion and its callers
BodyStep(r) ==
    \/ CreateRun(r) \/ Auth(r) \/ AuthFailed(r) \/ SetInProgress(r)
    \/ Count(r) \/ List(r) \/ Loop(r) \/ GetActive(r) \/ Complete(r)

\* a database operation rejects
FailStep(r) ==
    \/ SaveConfigFails(r) \/ CreateRunFails(r) \/ DbOperationFails(r)
    \/ Catch(r) \/ CatchFails(r)

FileStep(r) ==
    \/ Extract(r) \/ Lookup(r)
    \/ CreateDoc(r) \/ CreateInitVer(r) \/ CreatedRec(r)
    \/ Undelete(r) \/ ReappearRec(r)
    \/ RenameRec(r) \/ RenameUpd(r)
    \/ CreateVer(r) \/ ModRec(r) \/ GetPrev(r) \/ ModUpd(r)
    \/ DelRec(r) \/ DelUpd(r) \/ BaselineRec(r)

\* the steps on a file that the run after the baseline run can take: a
\* document reappears in a third run at the earliest
FileStepExpl(r) ==
    \/ Extract(r) \/ Lookup(r)
    \/ CreateDoc(r) \/ CreateInitVer(r) \/ CreatedRec(r)
    \/ RenameRec(r) \/ RenameUpd(r)
    \/ CreateVer(r) \/ ModRec(r) \/ GetPrev(r) \/ ModUpd(r)
    \/ DelRec(r) \/ DelUpd(r)

NoRunExecuting == \A q \in RunIds : ~Executing(q)

\* The classifier, one run after the other: a caller asks for a run (through
\* the manual route or run-now) only when no run is executing, the scheduler
\* stays configured with its timer off, and no database operation rejects.
InitSeq ==
    /\ ingestionInProgress = FALSE
    /\ config = [enabled |-> FALSE, folderId |-> Folder]
    /\ timer = FALSE
    /\ reply = NoReply
    /\ EmptyStore
    /\ ExplanationsOff
    /\ NotCalled
    /\ AuthAtRest
    /\ runs = [r \in RunIds |-> NoRun]
    /\ dbFailures = 0
    /\ budget = [runs |-> MaxRuns, files |-> MaxListed]

NextSeq ==
    \/ (NoRunExecuting /\ PostIngestionRun)
    \/ (NoRunExecuting /\ RunNow)
    \/ \E r \in RunIds : SaveConfig(r) \/ BodyStep(r) \/ FileStep(r)
    \/ \E r \in RunIds : ListPartly(r)

Spec == InitSeq /\ [][NextSeq]_vars

\* The single-flight guard: every scheduler operation and the manual route, in
\* any interleaving the awaits allow, over a watched folder that holds no file.
NextSched ==
    \/ Start \/ Stop \/ UpdateConfig \/ UpdateConfigSaveFails
    \/ RunNow \/ TimerTick \/ PostIngestionRun
    \/ \E r \in RunIds : SaveConfig(r) \/ BodyStep(r) \/ FailStep(r)

SpecSched == Init /\ [][NextSched]_vars

\* The classifier when database operations may reject: runs one after the
\* other through the manual route, over a folder that holds files.
InitFail ==
    /\ ingestionInProgress = FALSE
    /\ config = [enabled |-> FALSE, folderId |-> Folder]
    /\ timer = FALSE
    /\ reply = NoReply
    /\ EmptyStore
    /\ ExplanationsOff
    /\ NotCalled
    /\ AuthAtRest
    /\ runs = [r \in RunIds |-> NoRun]
    /\ dbFailures = 0
    /\ budget = [runs |-> MaxRuns, files |-> MaxFiles]

NextFail ==
    \/ (NoRunExecuting /\ PostIngestionRun)
    \/ \E r \in RunIds : BodyStep(r) \/ FileStep(r)
    \/ \E r \in RunIds : CreateRunFails(r) \/ DbOperationFails(r)
                           \/ Catch(r) \/ CatchFails(r)

SpecFail == InitFail /\ [][NextFail]_vars

\* Manual runs that overlap (the manual route looks at no guard), at most
\* MaxConcRuns of them at a time, over a folder that holds files; an insert
\* the store rejects goes to the catch block.
InitConc ==
    /\ ingestionInProgress = FALSE
    /\ config = [enabled |-> FALSE, folderId |-> Folder]
    /\ timer = FALSE
    /\ reply = NoReply
    /\ EmptyStore
    /\ ExplanationsOff
    /\ NotCalled
    /\ AuthAtRest
    /\ runs = [r \in RunIds |-> NoRun]
    /\ dbFailures = 0
    /\ budget = [runs |-> MaxRuns, files |-> MaxFiles]

NextConc ==
    \/ (Cardinality({r \in RunIds : Executing(r)}) < MaxConcRuns /\ PostIngestionRun)
    \/ \E r \in RunIds : BodyStep(r) \/ FileStep(r) \/ Catch(r)

SpecConc == InitConc /\ [][NextConc]_vars

\* The explanation pipeline.  The behaviours start where a first run has
\* just ended completed: it indexed the Google Doc g1 (name a, content c1)
\* as the baseline, and the explanation task of its baseline record is still
\* waiting for its update.  Further runs, one after the other, their
\* explanation tasks, the generator's client and the backfills of the
\* dashboard route then interleave in any order; an update of explanation
\* columns may reject.
InitExpl ==
    /\ ingestionInProgress = FALSE
    /\ config = [enabled |-> FALSE, folderId |-> Folder]
    /\ timer = FALSE
    /\ reply = NoReply
    /\ generator \in [enabled : BOOLEAN, openai : {FALSE}]
    /\ backfills = [b \in BackfillIds |-> NoBackfill]
    /\ NotCalled
    /\ AuthAtRest
    /\ ingestionRuns = [r \in RunIds |->
          IF r = 1 THEN [status |-> "completed", documentsProcessed |-> 1,
                         changesDetected |-> 1, error |-> Null, updates |-> 2]
          ELSE NoRow]
    /\ documents = <<[NoDoc EXCEPT !.id = 1, !.googleDriveId = "g1",
                                   !.fileName = "a", !.mimeType = GDoc,
                                   !.lastModified = "t1",
                                   !.currentVersionId = 1,
                                   !.currentHash = [alg |-> "sha256",
                                                    value |-> computeHash("c1")]]>>
    /\ versions = <<[id |-> 1, documentId |-> 1, content |-> "c1",
                     hash |-> [alg |-> "sha256", value |-> computeHash("c1")]]>>
    /\ nextVersionId = 2
    /\ changeRecords =
          <<[id |-> 1, documentId |-> 0, previousVersionId |-> 0,
             newVersionId |-> 0, changeType |-> "baseline",
             summary |-> "Baseline established",
             reason |-> [NoReason EXCEPT !.baselineDocCount = 1],
             severity |-> "low", explanationStatus |-> Null,
             explanationText |-> NoOutput.text, explanationBullets |-> <<>>,
             explanationMeta |-> NoMeta, explanationError |-> Null,
             explainedAt |-> 0, run |-> 1]>>
    /\ explQueue = <<[recordId |-> 1, changeType |-> "baseline",
                      documentName |-> Null, previousContent |-> Null,
                      newContent |-> Null, gen |-> generator, pc |-> "store",
                      outcome |-> "none", error |-> Null, rejected |-> 0]>>
    /\ runs = [r \in RunIds |->
          IF r = 1 THEN [NoRun EXCEPT !.pc = "done", !.outcome = "returned"]
          ELSE NoRun]
    /\ dbFailures = 0
    /\ budget = [runs |-> MaxExplRuns, files |-> MaxExplFiles]

NextExpl ==
    \/ (NoRunExecuting /\ PostIngestionRun)
    \/ \E r \in RunIds : BodyStep(r) \/ FileStepExpl(r)
    \/ InitializeOpenAI
    \/ \E q \in TaskIds : TaskStep(q)

SpecExpl == InitExpl /\ [][NextExpl]_vars

\* The backfill.  The behaviours start where a second run has just ended
\* completed: it found the Google Doc g1 gone and a new PDF g2 (name a), so
\* that the baseline record of the first run, explained by its task, and a
\* created record and a deleted record, not explained yet, are stored, each
\* with its explanation task launched; the generator's client was
\* initialised before the second run, or is not yet, or explanations are
\* disabled.  The tasks and the backfills
\* that GET /api/dashboard starts then interleave in any order, and an
\* operation of the database may reject.
InitBackfill ==
    /\ ingestionInProgress = FALSE
    /\ config = [enabled |-> FALSE, folderId |-> Folder]
    /\ timer = FALSE
    /\ reply = NoReply
    /\ generator \in {g \in [enabled : BOOLEAN, openai : BOOLEAN] :
                          g.openai => g.enabled}
    /\ backfills = [b \in BackfillIds |-> NoBackfill]
    /\ NotCalled
    /\ AuthAtRest
    /\ ingestionRuns = [r \in RunIds |->
          IF r = 1 THEN [status |-> "completed", documentsProcessed |-> 1,
                         changesDetected |-> 1, error |-> Null, updates |-> 2]
          ELSE IF r = 2
          THEN [status |-> "completed", documentsProcessed |-> 1,
                changesDetected |-> 2, error |-> Null, updates |-> 2]
          ELSE NoRow]
    /\ documents = <<[NoDoc EXCEPT !.id = 1, !.googleDriveId = "g1",
                                   !.fileName = "a", !.mimeType = GDoc,
                                   !.lastModified = "t1",
                                   !.currentVersionId = 1,
                                   !.currentHash = [alg |-> "sha256",
                                                    value |-> computeHash("c1")],
                                   !.isDeleted = TRUE, !.deletedAt = "now"],
                     [NoDoc EXCEPT !.id = 2, !.googleDriveId = "g2",
                                   !.fileName = "a", !.mimeType = Pdf,
                                   !.lastModified = "t1",
                                   !.currentVersionId = 2,
                                   !.currentHash = [alg |-> "sha256",
                                        value |-> computeHash(PdfPlaceholder)]]>>
    /\ versions = <<[id |-> 1, documentId |-> 1, content |-> "c1",
                     hash |-> [alg |-> "sha256", value |-> computeHash("c1")]],
                    [id |-> 2, documentId |-> 2, content |-> PdfPlaceholder,
                     hash |-> [alg |-> "sha256",
                               value |-> computeHash(PdfPlaceholder)]]>>
    /\ nextVersionId = 3
    /\ LET unexplained(id, r, docId, prevVid, newVid, type, summary, reason,
                       severity) ==
               [id |-> id, documentId |-> docId, previousVersionId |-> prevVid,
                newVersionId |-> newVid, changeType |-> type,
                summary |-> summary, reason |-> reason, severity |-> severity,
                explanationStatus |-> Null, explanationText |-> NoOutput.text,
                explanationBullets |-> <<>>, explanationMeta |-> NoMeta,
                explanationError |-> Null, explainedAt |-> 0, run |-> r]
           launched(id, type, documentName, newContent, gen) ==
               [recordId |-> id, changeType |-> type,
                documentName |-> documentName, previousContent |-> Null,
                newContent |-> newContent, gen |-> gen,
                pc |-> IF delegates(gen, type) THEN "store" ELSE "ai",
                outcome |-> "none", error |-> Null, rejected |-> 0]
           baseline == [NoReason EXCEPT !.baselineDocCount = 1]
           output == DeterministicGenerate(ExplanationInput("baseline",
                         stringify(baseline), Null, Null, Null))
       IN  /\ changeRecords =
                <<[unexplained(1, 1, 0, 0, 0, "baseline",
                               "Baseline established", baseline, "low")
                      EXCEPT !.explanationText = output.text,
                             !.explanationBullets = output.what_changed,
                             !.explanationMeta =
                                 storedMeta(output.meta, FALSE, FALSE),
                             !.explanationStatus = "generated",
                             !.explainedAt = 1],
                  unexplained(2, 2, 2, 0, 2, "created", "added to the system",
                              NoReason, "medium"),
                  unexplained(3, 2, 1, 1, 0, "deleted",
                              "removed from folder or deleted",
                              [NoReason EXCEPT !.lastSeenAt = "t1",
                                               !.lastKnownName = "a"],
                              "medium")>>
           /\ explQueue =
                <<[launched(1, "baseline", Null, Null,
                            [generator EXCEPT !.openai = FALSE])
                      EXCEPT !.pc = "done"],
                  launched(2, "created", "a", PdfPlaceholder, generator),
                  launched(3, "deleted", "a", Null, generator)>>
    /\ runs = [r \in RunIds |->
          IF r \in {1, 2} THEN [NoRun EXCEPT !.pc = "done", !.outcome = "returned"]
          ELSE NoRun]
    /\ dbFailures = 0
    /\ budget = [runs |-> 0, files |-> 0]

NextBackfill ==
    \/ InitializeOpenAI
    \/ \E q \in TaskIds : TaskStep(q)
    \/ GetDashboard
    \/ \E b \in BackfillIds : BackfillStep(b)

SpecBackfill == InitBackfill /\ [][NextBackfill]_vars

\* The backfill under the scheduling the event loop gives.  Requests for the
\* dashboard come one after the other, each once the backfill of the one
\* before is over.  An operation that a task awaits settles, accepted or
\* rejected, so that the tasks keep making steps while one of them has work;
\* requests for the dashboard keep arriving and the operations their backfill
\* awaits settle.  The database rejects MaxDbFailures operations at most.
TaskWork == InitializeOpenAI \/ \E q \in TaskIds : TaskStep(q)

BackfillWork == (idle(1) /\ GetDashboard) \/ BackfillStep(1)

NextBackfillFair == TaskWork \/ BackfillWork

SpecBackfillFair ==
    /\ InitBackfill
    /\ [][NextBackfillFair]_vars
    /\ WF_vars(TaskWork)
    /\ WF_vars(BackfillWork)

\* ------------------------------------------- functions called on their own
\* The process at rest: nothing configured, nothing stored, no run.
AtRest ==
    /\ ingestionInProgress = FALSE
    /\ config = [enabled |-> FALSE, folderId |-> NoFolder]
    /\ timer = FALSE
    /\ reply = NoReply
    /\ EmptyStore
    /\ ExplanationsOff
    /\ runs = [r \in RunIds |-> NoRun]
    /\ dbFailures = 0
    /\ budget = [runs |-> 0, files |-> 0]

programVars == <<schedVars, dbVars, runs, dbFailures, generator, backfills,
                 auth, budget>>

\* the function returns: what a call of it becomes
returns(value) ==
    /\ ~call.returned
    /\ call' = [call EXCEPT !.returned = TRUE]
    /\ result' = value
    /\ UNCHANGED programVars

\* The inputs of the generators: the five change types and one that is none
\* of them; a reason column that is absent, no JSON, the JSON text null, a
\* number, an empty object or the facts of a change; names and contents.
UnknownType == "archived"
ChangeTypes == {"created", "modified", "deleted", "renamed", "baseline",
                UnknownType}
Reasons == {AbsentReason, UnparsableReason, JsonNullReason, JsonNumberReason,
            stringify(NoReason),
            stringify([NoReason EXCEPT !.oldName = "a", !.newName = "b",
                                       !.lastKnownName = "a",
                                       !.lastSeenAt = "t1",
                                       !.baselineDocCount = 2])}
DocumentNames == {Null, "a", SopName}
Contents == {Null, "", PdfPlaceholder, ShortText, "c1", "c2", "c3"}
ExplanationInputs ==
    {ExplanationInput(t, r, n, p, c) :
        t \in ChangeTypes, r \in Reasons, n \in DocumentNames,
        p \in Contents, c \in Contents}

\* a generator as its constructor and initializeOpenAI leave it: the client
\* is made only when explanations are enabled
Generators ==
    {g \in [enabled : BOOLEAN, openai : BOOLEAN] : g.openai => g.enabled}

DeterministicCalls ==
    {[fn |-> "DeterministicExplanationGenerator.generateExplanation",
      returned |-> FALSE, input |-> i] : i \in ExplanationInputs}

ReplitCalls ==
    {[fn |-> "ReplitAIExplanationGenerator.generateExplanation",
      returned |-> FALSE, gen |-> g, input |-> i, outcome |-> o] :
        g \in Generators, i \in ExplanationInputs, o \in AiOutcomes}

InitGenerators ==
    /\ AtRest
    /\ AuthAtRest
    /\ call \in DeterministicCalls \cup ReplitCalls
    /\ result = NoCall

DeterministicGenerateExplanation ==
    /\ call.fn = "DeterministicExplanationGenerator.generateExplanation"
    /\ returns(DeterministicGenerate(call.input))

ReplitGenerateExplanation ==
    /\ call.fn = "ReplitAIExplanationGenerator.generateExplanation"
    /\ returns(ReplitGenerate(call.gen, call.input, call.outcome))

NextGenerators ==
    \/ DeterministicGenerateExplanation
    \/ ReplitGenerateExplanation

SpecGenerators == InitGenerators /\ [][NextGenerators]_vars

\* The inputs of the diff engine: texts of at most MaxSegs raw segments for
\* computeTextDiff, with a cap of at most MaxCap chunks or the default one;
\* sequences of at most MaxParas paragraphs for backtrackDiff, whose table
\* is the one computeLCSMatrix makes of them.
MaxSegs == 2
MaxParas == 3
MaxCap == 2

TextsOver(alphabet, n) == UNION {[1..k -> alphabet] : k \in 0..n}

DiffTexts ==
    TextsOver({SegPlain, SegPadded, SegBlank, SegHeading, SegRisk, SegReq},
              MaxSegs)
ChunkCaps == (0..MaxCap) \cup {DefaultMaxChunks}
ParagraphLists == TextsOver({SegPlain, SegRisk, SegReq}, MaxParas)

ComputeTextDiffCalls ==
    {[fn |-> "computeTextDiff", returned |-> FALSE,
      previousContent |-> p, newContent |-> n, maxChunks |-> m] :
        p \in DiffTexts, n \in DiffTexts, m \in ChunkCaps}

BacktrackDiffCalls ==
    {[fn |-> "backtrackDiff", returned |-> FALSE, a |-> a, b |-> b] :
        a \in ParagraphLists, b \in ParagraphLists}

InitDiff ==
    /\ AtRest
    /\ AuthAtRest
    /\ call \in ComputeTextDiffCalls \cup BacktrackDiffCalls
    /\ result = NoCall

ComputeTextDiff ==
    /\ call.fn = "computeTextDiff"
    /\ returns(computeTextDiff(call.previousContent, call.newContent,
                               call.maxChunks))

BacktrackDiff ==
    /\ call.fn = "backtrackDiff"
    /\ returns(backtrackDiff(computeLCSMatrix(call.a, call.b), call.a, call.b))

NextDiff == ComputeTextDiff \/ BacktrackDiff

SpecDiff == InitDiff /\ [][NextDiff]_vars

\* ------------------------------------------------------ the auth manager
\* The states authManager can be in after start-up and sign-in: an access
\* token or none, expired (or within five minutes of expiry) or not, a
\* refresh token or none, one the token endpoint accepts or rejects.
AuthStates ==
    {m \in [accessToken : {Null, OldToken}, expiring : BOOLEAN,
            refreshToken : BOOLEAN, refreshing : {FALSE}, valid : BOOLEAN,
            callers : {[c \in Callers |-> NoCaller]}] :
        /\ m.valid => m.refreshToken
        /\ m.expiring => m.accessToken # Null}

Vias == {"dashboard", "startIngestion"}

authOthers == <<schedVars, dbVars, runs, dbFailures, generator, backfills,
               budget, pureVars>>

\* isAuthenticated() resolves for caller c with token !== null
answered(m, c, token) ==
    [m EXCEPT !.callers[c].pc = "done", !.callers[c].answer = token # Null]

\* if (!this.refreshToken || this.refreshing) return false
refuses(m) == ~m.refreshToken \/ m.refreshing

\* isAuthenticated() -> getAccessToken(): without a token null; with a token
\* that is not expiring the token; else refreshAccessToken(), which returns
\* false at once when it refuses (getAccessToken then drops the token and
\* returns null) and else sets refreshing and awaits the token endpoint
IsAuthenticated(c) ==
    /\ auth.callers[c].pc \in {"idle", "done"}
    /\ \E via \in Vias :
          LET m == [auth EXCEPT !.callers[c] =
                       [NoCaller EXCEPT !.via = via,
                           !.sawExpiring = auth.accessToken # Null
                                              /\ auth.expiring
                                              /\ auth.refreshToken]]
          IN  auth' =
                 IF m.accessToken = Null THEN answered(m, c, Null)
                 ELSE IF ~m.expiring THEN answered(m, c, m.accessToken)
                 ELSE IF refuses(m)
                 THEN answered([m EXCEPT !.accessToken = Null,
                                         !.expiring = FALSE], c, Null)
                 ELSE [m EXCEPT !.refreshing = TRUE, !.callers[c].pc = "fetch"]
    /\ UNCHANGED authOthers

\* await fetch(token endpoint): not ok (or it throws): return false, finally
\* refreshing = false, and getAccessToken drops the token and returns null;
\* ok: setAccessToken stores the new token with an expiry of one hour and
\* awaits db.saveAccessToken
TokenEndpointAnswers(c) ==
    /\ auth.callers[c].pc = "fetch"
    /\ auth' =
          IF ~auth.valid
          THEN answered([auth EXCEPT !.refreshing = FALSE,
                                     !.accessToken = Null,
                                     !.expiring = FALSE], c, Null)
          ELSE [auth EXCEPT !.accessToken = NewToken, !.expiring = FALSE,
                            !.callers[c].pc = "save"]
    /\ UNCHANGED authOthers

\* await db.saveAccessToken(...) settles (a rejection is caught and logged):
\* return true, finally refreshing = false, and getAccessToken returns
\* this.accessToken
SaveAccessToken(c) ==
    /\ auth.callers[c].pc = "save"
    /\ auth' = answered([auth EXCEPT !.refreshing = FALSE], c, auth.accessToken)
    /\ UNCHANGED authOthers

\* time passes: Date.now() >= tokenExpiry - 300000 becomes true
TokenAges ==
    /\ auth.accessToken # Null
    /\ ~auth.expiring
    /\ auth' = [auth EXCEPT !.expiring = TRUE]
    /\ UNCHANGED authOthers

InitAuth ==
    /\ AtRest
    /\ NotCalled
    /\ auth \in AuthStates

NextAuth ==
    \/ TokenAges
    \/ \E c \in Callers : IsAuthenticated(c)
    \/ \E c \in Callers : TokenEndpointAnswers(c)
    \/ \E c \in Callers : SaveAccessToken(c)

SpecAuth == InitAuth /\ [][NextAuth]_vars

\* ------------------------------------------------------------- properties
SchedOrigins == {"tick", "runNow"}
SchedRunExecuting == \E r \in RunIds : runs[r].origin \in SchedOrigins /\ Executing(r)

\* the ids of the change records run r has created
RecsOf(r) == {i \in 1..Len(changeRecords) : changeRecords[i].run = r}
RecsOfType(r, type) == {i \in RecsOf(r) : changeRecords[i].changeType = type}

\* run r has finished with the file it holds (or has skipped it)
FileFinished(r) == runs[r].pc \in {"loop", "getActive"} /\ runs[r].file # NoFile

\* When runs do not overlap, the number of documents that were stored when
\* run r started: those stored now less those r has inserted.
StoredAtStart(r) == Len(documents) - runs[r].docsCreated

C2_AtMostOneRunBody == Cardinality({r \in RunIds : InBody(r)}) <= 1

\* C3: the guard is true exactly while a scheduler-started run is between the
\* acceptance of its request and the end of its body: it is set before the
\* callback is invoked and it is false again once the body has returned or
\* thrown, so that a later runNow is accepted.
C3_GuardHeldExactlyDuringRun == ingestionInProgress <=> SchedRunExecuting

\* a scheduler-started run has thrown and a runNow made after it was accepted
C3_Witness ==
    /\ reply.via \in SchedOrigins /\ reply.error = Thrown
    /\ \E r \in RunIds : runs[r].origin = "runNow" /\ Executing(r)

\* C4: a timer tick that finds a run in progress changes nothing (but the value
\* it returns), and a scheduler-started run begins only in a step taken when
\* no such run was executing: the end of a run starts no further run.
C4_TickSkippedNotQueued ==
    [][/\ (reply' # reply /\ reply'.via = "tick" /\ reply'.guardWas)
            => UNCHANGED <<ingestionInProgress, config, timer, dbVars, runs,
                           dbFailures, budget>>
       /\ \A r \in RunIds :
            (runs[r].pc = "none" /\ runs'[r].origin \in SchedOrigins)
                => ~ingestionInProgress /\ ~SchedRunExecuting]_vars

C4_Witness ==
    /\ reply.via = "tick" /\ reply.guardWas /\ reply.error = StillRunning
    /\ SchedRunExecuting

\* C5: a run that started with no stored document and has listed N supported
\* files holds, when it is about to complete, exactly one baseline record with
\* baselineDocCount = N if N >= 1 and none if N = 0; it never creates a
\* record of type created.
C5_BaselineRun ==
    \A r \in RunIds :
        (InBody(r) /\ StoredAtStart(r) = 0)
            => /\ RecsOfType(r, "created") = {}
               /\ runs[r].pc = "complete" =>
                    IF runs[r].listedSupported >= 1
                    THEN /\ Cardinality(RecsOfType(r, "baseline")) = 1
                         /\ \A i \in RecsOfType(r, "baseline") :
                               changeRecords[i].reason.baselineDocCount
                                   = runs[r].listedSupported
                    ELSE RecsOfType(r, "baseline") = {}

C5_Witness ==
    \E r \in RunIds :
        /\ runs[r].pc = "complete" /\ StoredAtStart(r) = 0
        /\ runs[r].listedSupported = 2
        /\ Cardinality(RecsOfType(r, "baseline")) = 1

\* the pcs of a run that has taken its document count
Counted == {"list", "loop", "extract", "lookup", "createDoc", "createInitVer",
            "createdRec", "undelete", "reappearRec", "renameRec", "renameUpd",
            "createVer", "modRec", "getPrev", "modUpd", "getActive", "delRec",
            "delUpd", "baselineRec", "complete"}

\* C6: from its count to its end a run is a baseline run exactly if no
\* document, soft-deleted ones included, was stored when it started; a run
\* that started with a stored document makes a created record for each new
\* document, a run that started with none makes no such record.
C6_BaselineDecidedOnce ==
    \A r \in RunIds :
        runs[r].pc \in Counted
            => /\ runs[r].isBaselineRun = (StoredAtStart(r) = 0)
               /\ (FileFinished(r) /\ runs[r].branch = "new")
                    => ((\E k \in 1..Len(runs[r].fileRecs) :
                            changeRecords[runs[r].fileRecs[k]].changeType = "created")
                        <=> StoredAtStart(r) > 0)

\* a new file in a run that found only soft-deleted documents
C6_Witness ==
    \E r \in RunIds :
        /\ FileFinished(r) /\ runs[r].branch = "new"
        /\ StoredAtStart(r) > 0
        /\ \A i \in 1..Len(documents) :
              documents[i].id # runs[r].document.id => documents[i].isDeleted
        /\ RecsOfType(r, "created") # {}

\* C7 as stated: the store never holds more than one baseline record.
C7_AtMostOneBaseline ==
    Cardinality({i \in 1..Len(changeRecords) :
                    changeRecords[i].changeType = "baseline"}) <= 1

\* run r has made, for the file it holds, a new document with its initial
\* version and one created record, and holds no other record for that document
NewDocumentMade(r) ==
    LET u == runs[r] IN
    /\ \E i \in 1..Len(documents) :
          /\ documents[i].id = u.document.id
          /\ documents[i].googleDriveId = u.file.id
          /\ documents[i].currentVersionId = u.versionId
    /\ u.docsCreated >= 1
    /\ u.fileVers = <<u.versionId>>
    /\ getDocumentVersion(u.versionId).documentId = u.document.id
    /\ getDocumentVersion(u.versionId).hash = u.hash
    /\ Len(u.fileRecs) = 1
    /\ changeRecords[u.fileRecs[1]].changeType = "created"
    /\ changeRecords[u.fileRecs[1]].newVersionId = u.versionId
    /\ {i \in RecsOf(r) : changeRecords[i].documentId = u.document.id}
           = {u.fileRecs[1]}

\* C8 as stated: in a non-baseline run a supported file whose external id
\* had no stored document yields a document, its initial version and one
\* created record, and the run holds no other record for that document.
C8_EveryNewFileOneRecordInRun ==
    \A r \in RunIds :
        (InBody(r) /\ ~runs[r].isBaselineRun)
            => /\ (FileFinished(r) /\ runs[r].branch = "new") => NewDocumentMade(r)
               /\ \A i \in RecsOfType(r, "created") :
                     changeRecords[i].summary = "added to the system"
                         => {j \in RecsOf(r) : changeRecords[j].documentId
                                                  = changeRecords[i].documentId}
                                = {i}

\* C8 amended: in a non-baseline run every supported file whose content was
\* extracted and whose external id had no stored document when it was looked
\* up has, once the run is done with it, a new document, an initial version
\* and exactly one record, of type created; the run holds no other record for
\* that document at that point.
C8_NewFileCreated ==
    \A r \in RunIds :
        (FileFinished(r) /\ ~runs[r].isBaselineRun /\ runs[r].branch = "new")
            => NewDocumentMade(r)

C8_Witness ==
    \E r \in RunIds :
        /\ FileFinished(r) /\ ~runs[r].isBaselineRun /\ runs[r].branch = "new"
        /\ Len(documents) >= 2
        /\ Len(runs[r].fileRecs) = 1

\* C9: a file of an active tracked document whose hash equals the stored
\* currentHash gets no modified record and no new version, and the document
\* keeps its current version, whatever the file's modifiedTime.
C9_SameHashNoModification ==
    \A r \in RunIds :
        (/\ FileFinished(r) /\ runs[r].branch = "active"
         /\ runs[r].hash = runs[r].document.currentHash)
            => /\ runs[r].fileVers = <<>>
               /\ \A k \in 1..Len(runs[r].fileRecs) :
                     changeRecords[runs[r].fileRecs[k]].changeType # "modified"
               /\ getDocumentByGoogleDriveId(runs[r].file.id).currentVersionId
                     = runs[r].document.currentVersionId
               /\ getDocumentByGoogleDriveId(runs[r].file.id).currentHash
                     = runs[r].document.currentHash

\* the same content under a later modifiedTime
C9_Witness ==
    \E r \in RunIds :
        /\ FileFinished(r) /\ runs[r].branch = "active"
        /\ runs[r].hash = runs[r].document.currentHash
        /\ runs[r].file.modifiedTime # runs[r].document.lastModified
        /\ runs[r].file.name = runs[r].document.fileName

\* the explanation tasks launched for change record i
TasksFor(i) == {q \in 1..Len(explQueue) : explQueue[q].recordId = i}

AfterDeletionLoop(r) == runs[r].pc \in {"baselineRec", "complete"}

\* the deleted records run r has written for document d
DeletedRecsOf(r, d) ==
    {i \in RecsOfType(r, "deleted") : changeRecords[i].documentId = d}

\* the records of a given type and summary written for document d by any run
RecsFor(d, type, summary) ==
    {i \in 1..Len(changeRecords) :
        /\ changeRecords[i].documentId = d
        /\ changeRecords[i].changeType = type
        /\ changeRecords[i].summary = summary}

\* C11: once a run has left its deletion loop, every document that was active
\* when the run began and whose external id its listing did not show is still
\* stored, is soft-deleted with deletedAt set, and has exactly one deleted
\* record of that run, of severity medium, whose reason carries the
\* document's name and last-modified time.
C11_MissingSoftDeleted ==
    \A r \in RunIds :
        AfterDeletionLoop(r)
            => /\ \A id \in runs[r].activeAtCount :
                     \E i \in 1..Len(documents) : documents[i].id = id
               /\ \A i \in 1..Len(documents) :
                     (/\ documents[i].id \in runs[r].activeAtCount
                      /\ documents[i].googleDriveId \notin runs[r].listedIds)
                        => /\ documents[i].isDeleted
                           /\ documents[i].deletedAt # Null
                           /\ Cardinality(DeletedRecsOf(r, documents[i].id)) = 1
                           /\ \A k \in DeletedRecsOf(r, documents[i].id) :
                                 /\ changeRecords[k].severity = "medium"
                                 /\ changeRecords[k].reason.lastKnownName
                                       = documents[i].fileName
                                 /\ changeRecords[k].reason.lastSeenAt
                                       = documents[i].lastModified

\* two documents missing from one listing
C11_Witness ==
    \E r \in RunIds :
        /\ AfterDeletionLoop(r)
        /\ Cardinality(RecsOfType(r, "deleted")) = 2
        /\ \A i \in 1..Len(documents) : documents[i].isDeleted

\* C12 as stated: once a non-baseline run is done with a file whose document
\* was soft-deleted, the document is active again, the run holds exactly one
\* record for it, a created record with the reappearance summary, and the
\* rename and content checks have changed nothing: no version was made and
\* the stored name and hash are those the lookup returned.
C12_ReappearanceOnly ==
    \A r \in RunIds :
        (FileFinished(r) /\ ~runs[r].isBaselineRun /\ runs[r].branch = "reappeared")
            => LET d == getDocumentByGoogleDriveId(runs[r].file.id) IN
               /\ ~d.isDeleted
               /\ Len(runs[r].fileRecs) = 1
               /\ changeRecords[runs[r].fileRecs[1]].changeType = "created"
               /\ changeRecords[runs[r].fileRecs[1]].summary
                     = "reappeared in the folder"
               /\ {i \in RecsOf(r) : changeRecords[i].documentId = d.id}
                     = {runs[r].fileRecs[1]}
               /\ runs[r].fileVers = <<>>
               /\ d.fileName = runs[r].document.fileName
               /\ d.currentHash = runs[r].document.currentHash

\* C13: a run that has left its deletion loop has written no deleted record
\* for a document that was already soft-deleted when the run began and that
\* its listing did not show; such a document has one more deleted record than
\* reappearance records, so the run that first missed it wrote the only one.
C13_DeletedOnce ==
    \A r \in RunIds :
        AfterDeletionLoop(r)
            => \A i \in 1..Len(documents) :
                  (/\ documents[i].id \notin runs[r].activeAtCount
                   /\ documents[i].googleDriveId \notin runs[r].listedIds)
                     => /\ DeletedRecsOf(r, documents[i].id) = {}
                        /\ documents[i].isDeleted
                        /\ Cardinality(RecsFor(documents[i].id, "deleted",
                                               "removed from folder or deleted"))
                             = Cardinality(RecsFor(documents[i].id, "created",
                                                   "reappeared in the folder")) + 1

\* a second run in a row that does not list a document deleted before it
C13_Witness ==
    \E r \in RunIds :
        /\ AfterDeletionLoop(r)
        /\ \E i \in 1..Len(documents) :
              /\ documents[i].id \notin runs[r].activeAtCount
              /\ documents[i].googleDriveId \notin runs[r].listedIds
              /\ \E k \in 1..Len(changeRecords) :
                    /\ changeRecords[k].changeType = "deleted"
                    /\ changeRecords[k].documentId = documents[i].id
                    /\ changeRecords[k].run # r

\* the places in versions of the versions of document d
VersionsOf(d) == {k \in 1..Len(versions) : versions[k].documentId = d}

\* C14 as stated, read at the states where no run is executing (after a failed
\* run as after a completed one): every document's currentVersionId names a
\* stored version of that document, the one created last, whose hash is the
\* document's currentHash.
C14_CurrentVersionIsLatest ==
    NoRunExecuting
        => \A i \in 1..Len(documents) :
              \E k \in VersionsOf(documents[i].id) :
                 /\ versions[k].id = documents[i].currentVersionId
                 /\ versions[k].hash = documents[i].currentHash
                 /\ \A j \in VersionsOf(documents[i].id) : j <= k

\* C15: no two stored documents have the same googleDriveId, whatever runs
\* overlap.
C15_UniqueGoogleDriveId ==
    \A i, j \in 1..Len(documents) :
        documents[i].googleDriveId = documents[j].googleDriveId => i = j

\* two overlapping runs looked up the same new file and found nothing; the
\* insert of the second was rejected
C15_Witness ==
    \E r, q \in RunIds :
        /\ r # q
        /\ runs[r].pc = "catch" /\ runs[r].branch = "new"
        /\ InBody(q) /\ runs[q].branch = "new"
        /\ runs[q].file.id = runs[r].file.id
        /\ runs[q].docsCreated = 1

\* the moves of an IngestionRun's status that C16 allows
AllowedStatusMoves ==
    {<<"absent", "pending">>, <<"pending", "in_progress">>,
     <<"pending", "failed">>, <<"in_progress", "completed">>,
     <<"in_progress", "failed">>}

\* C16: a row of ingestion_runs is created with status pending and changes
\* only by an update that moves its status pending -> in_progress,
\* pending -> failed, in_progress -> completed or in_progress -> failed; it
\* receives at most two updates, and none once completed or failed.
C16_StatusMoves ==
    [][\A r \in RunIds :
          ingestionRuns'[r] # ingestionRuns[r]
              => /\ <<ingestionRuns[r].status, ingestionRuns'[r].status>>
                       \in AllowedStatusMoves
                 /\ ingestionRuns'[r].updates <= 2
                 /\ ingestionRuns[r].status = "absent"
                       => ingestionRuns'[r].updates = 0]_vars

\* a run marked in_progress and then failed
C16_Witness ==
    \E r \in RunIds :
        /\ ingestionRuns[r].status = "failed"
        /\ ingestionRuns[r].updates = 2
        /\ runs[r].pc = "done"

\* C17 as stated, for the runs that are over: a run whose IngestionRun was
\* created and whose startIngestion call has ended has a terminal status.
C17_EndsTerminal ==
    \A r \in RunIds :
        (runs[r].pc = "done" /\ ingestionRuns[r].status # "absent")
            => ingestionRuns[r].status \in {"completed", "failed"}

\* C18: a run whose auth check answered no is waiting for its failed update
\* with its row still pending and nothing listed or written, and its next
\* step ends it: the row becomes failed with the auth error, and no document,
\* version, change record or explanation task is created or changed and no
\* listing is asked for.
C18_NotAuthenticated ==
    [][\A r \in RunIds :
          (InBody(r) /\ ~runs[r].isAuthenticated)
              => /\ runs[r].pc = "authFailed"
                 /\ ingestionRuns[r].status = "pending"
                 /\ runs[r].listedIds = {} /\ runs[r].filesLeft = 0
                 /\ RecsOf(r) = {} /\ runs[r].docsCreated = 0
                 /\ runs'[r] # runs[r]
                       => /\ runs'[r].pc = "done"
                          /\ ingestionRuns'[r].status = "failed"
                          /\ ingestionRuns'[r].error = NotAuthenticated
                          /\ ingestionRuns'[r].updates = 1
                          /\ UNCHANGED <<documents, versions, changeRecords,
                                         explQueue, nextVersionId, budget>>]_vars

\* an unauthenticated run that came after a run that stored a document
C18_Witness ==
    \E r \in RunIds :
        /\ ingestionRuns[r].status = "failed"
        /\ ingestionRuns[r].error = NotAuthenticated
        /\ runs[r].pc = "done"
        /\ Len(documents) >= 1

\* the listed file's content cannot be extracted: a Google Doc whose export
\* throws or yields nothing
Unextractable(f) == f.mimeType = GDoc /\ f.export \in {"", ExportThrows}

\* C19: the step that fails to extract a file's content goes on with the
\* loop and changes no document, version, change record or explanation task;
\* after the deletion loop a document that was active when the run began and
\* whose file was skipped is still active; and the run ends completed.
C19_SkippedFile ==
    [][\A r \in RunIds :
          /\ (/\ runs[r].pc = "extract" /\ Unextractable(runs[r].file)
              /\ runs'[r] # runs[r])
                => /\ runs'[r].pc = "loop"
                   /\ runs'[r].filesLeft = runs[r].filesLeft
                   /\ runs'[r].changesDetected = runs[r].changesDetected
                   /\ UNCHANGED <<documents, versions, changeRecords, explQueue,
                                  nextVersionId>>
          /\ AfterDeletionLoop(r)
                => \A i \in 1..Len(documents) :
                      (/\ documents[i].googleDriveId \in runs[r].skippedIds
                       /\ documents[i].id \in runs[r].activeAtCount)
                         => ~documents[i].isDeleted
          /\ (runs[r].skippedIds # {} /\ runs'[r].pc = "done")
                => ingestionRuns'[r].status = "completed"]_vars

\* a tracked document's file was skipped and a later file of the same listing
\* was stored
C19_Witness ==
    \E r \in RunIds :
        /\ runs[r].pc = "complete"
        /\ runs[r].docsCreated = 1
        /\ \E i \in 1..Len(documents) :
              /\ documents[i].googleDriveId \in runs[r].skippedIds
              /\ documents[i].id \in runs[r].activeAtCount
              /\ ~documents[i].isDeleted

\* C20 as stated: a database operation that rejects while a file is being
\* classified undoes nothing, and the step that follows ends the run with
\* status failed and the error message stored, the rest of the listing
\* unprocessed, and every document, version and change record kept.
C20_WriteFailureMarksFailed ==
    [][\A r \in RunIds :
          /\ (runs[r].pc # "catch" /\ runs'[r].pc = "catch")
                => UNCHANGED <<documents, versions, changeRecords>>
          /\ (/\ runs[r].pc = "catch" /\ runs[r].file # NoFile
              /\ runs'[r] # runs[r])
                => /\ runs'[r].pc = "done"
                   /\ ingestionRuns'[r].status = "failed"
                   /\ ingestionRuns'[r].error = runs[r].error
                   /\ runs[r].error # Null
                   /\ UNCHANGED <<documents, versions, changeRecords, budget>>]_vars

\* the records run r created
RecordsOf(r) == {i \in 1..Len(changeRecords) : changeRecords[i].run = r}

\* C21: a step of an explanation task, whatever its outcome, changes no
\* IngestionRun (status, error, changesDetected) and nothing of a run in
\* progress; the witness is a run that is completed with its final count
\* while one of its records has no explanation yet and another has failed.
C21_ExplanationDetached ==
    [][\A q \in TaskIds :
          (q \in Tasks /\ explQueue'[q] # explQueue[q])
              => (ingestionRuns' = ingestionRuns /\ runs' = runs)]_vars

C21_Witness ==
    \E r \in RunIds :
        /\ ingestionRuns[r].status = "completed"
        /\ ingestionRuns[r].changesDetected = Cardinality(RecordsOf(r))
        /\ \E i, j \in RecordsOf(r) :
              /\ changeRecords[i].explanationStatus = Null
              /\ changeRecords[j].explanationStatus = "failed"

\* C22 as stated: a task for a created or modified record whose chat
\* completion call failed and whose update succeeded has left the record
\* generated, with the deterministic explanation of its input, and with the
\* text of the AI error in explanationError.
C22_AiErrorKept ==
    \A q \in TaskIds :
        (/\ q \in Tasks
         /\ explQueue[q].pc = "done"
         /\ explQueue[q].outcome \in AiErrors
         /\ explQueue[q].rejected = 0)
            => LET t == explQueue[q]
                   rec == changeRecords[t.recordId]
               IN  /\ t.changeType \in {"created", "modified"}
                   /\ rec.explanationStatus = "generated"
                   /\ rec.explanationText = DeterministicGenerate(inputOf(t)).text
                   /\ rec.explanationError \in {t.outcome, AiFailed(t.outcome)}

\* C23: a step that writes the status failed to a record is the failed
\* update of the record's task after the primary update and the fallback
\* update were both rejected, and it stores the error text with it.
C23_FailedOnlyAfterBoth ==
    [][\A i \in 1..Len(changeRecords) :
          (/\ changeRecords'[i].explanationStatus = "failed"
           /\ changeRecords'[i] # changeRecords[i])
              => \E q \in Tasks :
                    /\ explQueue[q].recordId = i
                    /\ explQueue[q].pc = "failed" /\ explQueue'[q].pc = "done"
                    /\ explQueue[q].rejected = 2
                    /\ explQueue[q].error = DbError
                    /\ changeRecords'[i].explanationError = explQueue[q].error]_vars

C23_Witness ==
    \E i \in 1..Len(changeRecords) :
        /\ changeRecords[i].explanationStatus = "failed"
        /\ changeRecords[i].explanationError = DbError
        /\ changeRecords[i].changeType = "modified"

\* C24 as stated: once a record has an explanation status, no step (of its
\* own task, of a backfill, of a second backfill running at the same time)
\* changes any of its explanation columns.
C24_WrittenOnce ==
    [][\A i \in 1..Len(changeRecords) :
          changeRecords[i].explanationStatus # Null
              => explanationOf(changeRecords'[i]) = explanationOf(changeRecords[i])]_vars

\* C25 as stated: an update made by a backfill goes to a record whose
\* explanation status is unset at the time of the update, a record explained
\* by its own task since the backfill's scan included; and a backfill whose
\* scan finds every record explained writes nothing and returns 0.
C25_BackfillOnlyUnexplained ==
    [][\A b \in BackfillIds :
          /\ (/\ backfills[b].pc = "update"
              /\ backfills'[b] # backfills[b]
              /\ changeRecords' # changeRecords)
                => changeRecords[backfills[b].records[backfills[b].at]]
                       .explanationStatus = Null
          /\ (/\ backfills[b].pc = "scan"
              /\ backfills'[b] # backfills[b]
              /\ \A i \in 1..Len(changeRecords) :
                    changeRecords[i].explanationStatus # Null)
                => /\ backfills'[b].pc = "done"
                   /\ backfills'[b].backfilled = 0
                   /\ changeRecords' = changeRecords]_vars

\* record i is stored and has an explanation status
explained(i) ==
    /\ i <= Len(changeRecords)
    /\ changeRecords[i].explanationStatus \in {"generated", "skipped", "failed"}

\* every explanation task is the task of a record that is stored, and no two
\* tasks are for one record
TasksOfStoredRecords ==
    \A q \in Tasks :
        /\ explQueue[q].recordId \in 1..Len(changeRecords)
        /\ changeRecords[explQueue[q].recordId].changeType
               = explQueue[q].changeType
        /\ \A p \in Tasks : explQueue[p].recordId = explQueue[q].recordId
                                => p = q

C27_DelegatesUnchanged ==
    (/\ call.fn = "ReplitAIExplanationGenerator.generateExplanation"
     /\ call.returned
     /\ \/ call.input.changeType \in {"baseline", "renamed", "deleted"}
        \/ ~call.gen.enabled)
        => /\ result.output = DeterministicGenerate(call.input)
           /\ ~result.aiCalled

C27_Witness ==
    /\ call.fn = "ReplitAIExplanationGenerator.generateExplanation"
    /\ call.returned
    /\ call.input.changeType = "deleted"
    /\ call.gen.enabled /\ call.gen.openai
    /\ call.outcome = AiFull
    /\ ~result.aiCalled
    /\ result.output.meta.deterministic
    /\ result.output.what_changed # <<>>

\* C28 as stated: every call of the deterministic generateExplanation
\* returns (its promise fulfils) with a what_changed that has an entry,
\* for every type, contents and reason column.
C28_Total ==
    (/\ call.fn = "DeterministicExplanationGenerator.generateExplanation"
     /\ call.returned)
        => /\ ~result.threw
           /\ result.what_changed # <<>>

\* C29: computeTextDiff of two equal texts returns no chunk, counts of 0, no
\* high-risk phrase and hasHighRiskChanges false.
C29_EqualInputsNoDiff ==
    (/\ call.fn = "computeTextDiff"
     /\ call.returned
     /\ call.previousContent = call.newContent)
        => /\ result.chunks = <<>>
           /\ result.summary = [added |-> 0, removed |-> 0, modified |-> 0]
           /\ result.highRiskPhrases = <<>>
           /\ result.hasHighRiskChanges = FALSE

C29_Witness ==
    /\ call.fn = "computeTextDiff"
    /\ call.returned
    /\ call.previousContent = <<SegRisk, SegPadded>>
    /\ call.newContent = call.previousContent
    /\ result.chunks = <<>>

\* the 'same' operations of an edit script, in order
sameOps(ops) == SelectSeq(ops, LAMBDA op : op.type = "same")

\* C30: the 'same' operations of the script backtrackDiff returns have
\* strictly increasing indexA and indexB, each with a[indexA] = b[indexB] =
\* value (indices from 0), and they are as many as the table's last entry.
C30_SameOpsCommonSubsequence ==
    (/\ call.fn = "backtrackDiff"
     /\ call.returned)
        => LET same == sameOps(result)
               dp == computeLCSMatrix(call.a, call.b)
           IN  /\ \A k \in 1..Len(same) :
                     /\ same[k].indexA \in 0..(Len(call.a) - 1)
                     /\ same[k].indexB \in 0..(Len(call.b) - 1)
                     /\ call.a[same[k].indexA + 1] = same[k].value
                     /\ call.b[same[k].indexB + 1] = same[k].value
               /\ \A k \in 1..(Len(same) - 1) :
                     /\ same[k].indexA < same[k + 1].indexA
                     /\ same[k].indexB < same[k + 1].indexB
               /\ Len(same) = dp[Len(call.a)][Len(call.b)]

C30_Witness ==
    /\ call.fn = "backtrackDiff"
    /\ call.returned
    /\ call.a = <<SegPlain, SegRisk, SegReq>>
    /\ call.b = <<SegRisk, SegPlain, SegReq>>
    /\ Len(sameOps(result)) = 2
    /\ Len(result) = 4

\* C31: a paragraph replaced in place: for the paragraphs [A, B] and [A, C]
\* with A, B, C distinct and a cap of at least one chunk, computeTextDiff
\* returns exactly one chunk, modified, before B and after C, and the summary
\* has added 0, removed 0, modified 1.
C31_ReplacedInPlace ==
    (/\ call.fn = "computeTextDiff"
     /\ call.returned
     /\ call.maxChunks >= 1
     /\ Len(splitIntoParagraphs(call.previousContent)) = 2
     /\ Len(splitIntoParagraphs(call.newContent)) = 2)
        => LET prev == splitIntoParagraphs(call.previousContent)
               new == splitIntoParagraphs(call.newContent)
           IN  (prev[1] = new[1] /\ prev[2] # new[2]
                    /\ prev[1] # prev[2] /\ new[1] # new[2])
                   => /\ Len(result.chunks) = 1
                      /\ result.chunks[1].type = "modified"
                      /\ result.chunks[1].before = truncateExcerpt(prev[2])
                      /\ result.chunks[1].after = truncateExcerpt(new[2])
                      /\ result.summary =
                             [added |-> 0, removed |-> 0, modified |-> 1]

C31_Witness ==
    /\ call.fn = "computeTextDiff"
    /\ call.returned
    /\ call.maxChunks = DefaultMaxChunks
    /\ call.previousContent = <<SegPadded, SegReq>>
    /\ call.newContent = <<SegPlain, SegRisk>>
    /\ Len(result.chunks) = 1
    /\ result.chunks[1].type = "modified"
    /\ result.chunks[1].before = SegReq
    /\ result.chunks[1].after = SegRisk

\* the chunks of the edit script of a call, in script order, before the sort
scriptChunks(c) ==
    LET prev == splitIntoParagraphs(c.previousContent)
        new == splitIntoParagraphs(c.newContent)
        ops == backtrackDiff(computeLCSMatrix(prev, new), prev, new)
    IN  diffLoop(ops, c.previousContent, c.newContent, 1).chunks

\* list is the first Len(list) elements of whole
isPrefix(list, whole) ==
    Len(list) <= Len(whole) /\ list = SubSeq(whole, 1, Len(list))

\* C35: in the chunks computeTextDiff returns no chunk without a high-risk
\* phrase in its after-text precedes one with such a phrase; the chunks of
\* each group are the first of that group in edit-script order; a chunk
\* without a phrase is returned only when every chunk with a phrase is; and
\* the number of chunks is min(maxChunks, added + removed + modified).
C35_RiskFirstStableCapped ==
    (/\ call.fn = "computeTextDiff"
     /\ call.returned)
        => LET chunks == result.chunks
               all == scriptChunks(call)
               plain(c) == ~hasRisk(c)
               total == result.summary.added + result.summary.removed
                            + result.summary.modified
           IN  /\ \A i \in 1..Len(chunks) : \A j \in (i + 1)..Len(chunks) :
                      hasRisk(chunks[j]) => hasRisk(chunks[i])
               /\ isPrefix(SelectSeq(chunks, hasRisk), SelectSeq(all, hasRisk))
               /\ isPrefix(SelectSeq(chunks, plain), SelectSeq(all, plain))
               /\ SelectSeq(chunks, plain) # <<>>
                      => SelectSeq(chunks, hasRisk) = SelectSeq(all, hasRisk)
               /\ Len(chunks) = IF call.maxChunks < total
                                THEN call.maxChunks ELSE total

\* three chunks in the script, the one with a phrase last; a cap of two
\* returns it first, followed by the first of the other two
C35_Witness ==
    /\ call.fn = "computeTextDiff"
    /\ call.returned
    /\ call.maxChunks = 2
    /\ call.previousContent = <<SegPlain, SegHeading>>
    /\ call.newContent = <<SegReq, SegRisk>>
    /\ Len(scriptChunks(call)) = 3
    /\ hasRisk(scriptChunks(call)[3])
    /\ result.chunks = <<scriptChunks(call)[3], scriptChunks(call)[1]>>

\* C32: with explanations disabled, the step of a task whose first update
\* succeeds leaves its record skipped if the record's type is created or
\* modified and generated if it is baseline, renamed or deleted, in both
\* cases with the text and the bullets of the deterministic explanation of
\* its input.
C32_DisabledStatusByType ==
    [][\A q \in TaskIds :
          (/\ q \in Tasks
           /\ explQueue[q].pc = "store" /\ explQueue'[q].pc = "done"
           /\ ~generator.enabled)
              => LET t == explQueue[q]
                     rec == changeRecords'[t.recordId]
                     output == DeterministicGenerate(inputOf(t))
                 IN  /\ t.changeType \in {"created", "modified", "baseline",
                                          "renamed", "deleted"}
                     /\ rec.explanationStatus = "skipped"
                            <=> t.changeType \in {"created", "modified"}
                     /\ rec.explanationStatus = "generated"
                            <=> t.changeType \in {"baseline", "renamed", "deleted"}
                     /\ rec.explanationText = output.text
                     /\ rec.explanationBullets = output.what_changed]_vars

\* a modified record left skipped and a renamed record left generated, both
\* with explanations written by their tasks while the flag is off
C32_Witness ==
    /\ ~generator.enabled
    /\ \E q, h \in Tasks :
          /\ explQueue[q].pc = "done" /\ explQueue[q].rejected = 0
          /\ explQueue[q].changeType = "modified"
          /\ changeRecords[explQueue[q].recordId].explanationStatus = "skipped"
          /\ explQueue[h].pc = "done" /\ explQueue[h].rejected = 0
          /\ explQueue[h].changeType = "renamed"
          /\ changeRecords[explQueue[h].recordId].explanationStatus = "generated"

\* the diff the deterministic generator computes for the input of a call
diffOfInput(input) ==
    computeTextDiffWithContext(textOf(input.previousContent),
                               textOf(input.newContent),
                               orElse(input.documentName, "Document"))

\* C33: for a modified record the deterministic generator returns the
\* requirement shape (new_or_changed_requirements, one entry per extracted
\* requirement) iff both contents are substantive, the document is
\* procedural and a requirement was extracted; the evidence shape
\* (change_items, one entry per chunk) iff both contents are substantive and
\* the former does not hold; and the low-confidence generic explanation iff
\* a content is missing, a placeholder or not longer than 50 characters.
C33_ShapeByConditions ==
    (/\ call.fn = "DeterministicExplanationGenerator.generateExplanation"
     /\ call.returned
     /\ call.input.changeType = "modified")
        => LET input == call.input
               unusable(c) == c \in {Null, ""} \/ startsWithBracket(c)
                                 \/ ~longerThan50(c)
               both == ~unusable(input.previousContent)
                           /\ ~unusable(input.newContent)
               diff == diffOfInput(input)
               sop == both /\ diff.isProcedural /\ Len(diff.requirements) >= 1
               requirementShaped ==
                   /\ result.new_or_changed_requirements.present
                   /\ ~result.change_items.present
                   /\ Len(result.new_or_changed_requirements.items)
                          = Len(diff.requirements)
               evidenceBased ==
                   /\ result.change_items.present
                   /\ ~result.new_or_changed_requirements.present
                   /\ Len(result.change_items.items) = Len(diff.chunks)
               generic ==
                   /\ ~result.change_items.present
                   /\ ~result.new_or_changed_requirements.present
                   /\ result.meta.confidence = "low"
           IN  /\ ~result.threw
               /\ requirementShaped <=> sop
               /\ evidenceBased <=> (both /\ ~sop)
               /\ generic <=> ~both

\* a procedural document whose new text gains a requirement sentence
C33_Witness ==
    /\ call.fn = "DeterministicExplanationGenerator.generateExplanation"
    /\ call.returned
    /\ call.input.changeType = "modified"
    /\ call.input.documentName = SopName
    /\ call.input.previousContent = "c2"
    /\ call.input.newContent = "c1"
    /\ result.new_or_changed_requirements.present
    /\ Len(result.new_or_changed_requirements.items) = 1
    /\ result.new_or_changed_requirements.items[1].requirement = SegReq

\* C34 as stated: in an evidence-based explanation every change item whose
\* after-text holds a phrase of the diff engine's high-risk list carries the
\* escalation message as why_it_matters and recommended_action.
C34_RiskChunkEscalated ==
    (/\ call.fn = "DeterministicExplanationGenerator.generateExplanation"
     /\ call.returned
     /\ call.input.changeType = "modified"
     /\ result.change_items.present)
        => \A k \in 1..Len(result.change_items.items) :
              LET item == result.change_items.items[k]
              IN  (/\ item.after_excerpt # Null
                   /\ detectHighRiskPhrases(item.after_excerpt) # <<>>)
                      => /\ item.why_it_matters.kind = EscalatedWhy(Null).kind
                         /\ item.recommended_action = EscalatedAction

\* run r has left its deletion loop and not yet returned
PastDeletion(r) == runs[r].pc \in {"baselineRec", "complete"}

\* the external ids run r's listing has shown under unsupported types only
UnsupportedOnly(r) == runs[r].listedIds \ runs[r].currentDriveIds

\* C36: the step of the loop on a file of an unsupported type changes no
\* table, no counter of the run and not the set of ids present, and goes to
\* the next file; and after the deletion loop every document that was active
\* when the run started and whose file was listed under unsupported types
\* only is soft-deleted with a deleted record of the run.
C36_UnsupportedNoEffect ==
    /\ [][\A r \in RunIds :
             (/\ runs[r].pc = "loop"
              /\ runs[r].filesLeft > 0
              /\ runs'[r].filesLeft = runs[r].filesLeft - 1
              /\ runs'[r].file.mimeType \notin supportedMimes)
                 => /\ runs'[r].pc = "loop"
                    /\ UNCHANGED dbVars
                    /\ runs'[r].docsProcessed = runs[r].docsProcessed
                    /\ runs'[r].changesDetected = runs[r].changesDetected
                    /\ runs'[r].currentDriveIds = runs[r].currentDriveIds]_vars
    /\ [](\A r \in RunIds : PastDeletion(r) =>
             \A i \in 1..Len(documents) :
                (/\ documents[i].id \in runs[r].activeAtCount
                 /\ documents[i].googleDriveId \in UnsupportedOnly(r))
                    => /\ documents[i].isDeleted
                       /\ \E j \in RecsOfType(r, "deleted") :
                             changeRecords[j].documentId = documents[i].id)

\* a tracked document whose file the run has listed as plain text only is
\* soft-deleted by that run
C36_Witness ==
    \E r \in RunIds :
        /\ PastDeletion(r)
        /\ ~runs[r].isBaselineRun
        /\ runs[r].file.mimeType = PlainText
        /\ runs[r].docsProcessed = 0
        /\ \E i \in 1..Len(documents) :
              /\ documents[i].googleDriveId \in UnsupportedOnly(r)
              /\ documents[i].id \in runs[r].activeAtCount
              /\ documents[i].isDeleted
              /\ \E j \in RecsOfType(r, "deleted") :
                    changeRecords[j].documentId = documents[i].id

\* C37 as stated: the changesDetected stored on a completed run is the
\* number of change records the run created.
C37_ChangesDetectedCountsRecords ==
    \A r \in RunIds :
        ingestionRuns[r].status = "completed"
            => ingestionRuns[r].changesDetected = Cardinality(RecsOf(r))

\* the file run r holds was found as an active document with the stored
\* name and the stored hash
SameNameSameHash(u) ==
    /\ u.branch = "active"
    /\ u.file.name = u.document.fileName
    /\ u.hash = u.document.currentHash

\* C38: the lookup of a file whose name and hash are those stored on its
\* active document ends the processing of the file and changes no table
\* (documents, versions, change records, explanation tasks); when the run
\* has finished with the file it has made no record and no version for it
\* and the stored document is the one the lookup returned.
C38_UnchangedFileNoEffect ==
    /\ [][\A r \in RunIds :
             (runs[r].pc = "lookup" /\ runs'[r].pc # "lookup"
                  /\ runs'[r].pc # "catch" /\ SameNameSameHash(runs'[r]))
                 => /\ runs'[r].pc = "loop"
                    /\ UNCHANGED dbVars]_vars
    /\ [](\A r \in RunIds :
             (FileFinished(r) /\ SameNameSameHash(runs[r]))
                 => /\ runs[r].fileRecs = <<>>
                    /\ runs[r].fileVers = <<>>
                    /\ getDocumentByGoogleDriveId(runs[r].file.id)
                           = runs[r].document)

\* a tracked Google Doc listed again with a later modifiedTime, the same
\* name and the same text: the document keeps its lastModified
C38_Witness ==
    \E r \in RunIds :
        /\ FileFinished(r)
        /\ SameNameSameHash(runs[r])
        /\ runs[r].file.modifiedTime = "t2"
        /\ getDocumentByGoogleDriveId(runs[r].file.id).lastModified = "t1"
        /\ ~getDocumentByGoogleDriveId(runs[r].file.id).isDeleted
        /\ runs[r].fileRecs = <<>>

\* C39: a listing with a failed request does not throw: the run goes on to
\* its loop over the entries returned, with no error and no table changed;
\* after its deletion loop every document that was active when it started
\* and is not among the supported entries returned is soft-deleted with a
\* deleted record of the run; and the only status such a run stores is
\* completed.
C39_FailedListingCompletes ==
    /\ [][\A r \in RunIds :
             (runs[r].pc = "list" /\ runs'[r].listFailed)
                 => /\ runs'[r].pc = "loop"
                    /\ runs'[r].error = Null
                    /\ UNCHANGED dbVars]_vars
    /\ [](\A r \in RunIds : (PastDeletion(r) /\ runs[r].listFailed) =>
             \A i \in 1..Len(documents) :
                (/\ documents[i].id \in runs[r].activeAtCount
                 /\ documents[i].googleDriveId \notin runs[r].currentDriveIds)
                    => /\ documents[i].isDeleted
                       /\ \E j \in RecsOfType(r, "deleted") :
                             changeRecords[j].documentId = documents[i].id)
    /\ [][\A r \in RunIds :
             (runs[r].listFailed /\ ingestionRuns'[r] # ingestionRuns[r])
                 => ingestionRuns'[r].status = "completed"]_vars

\* the listing failed at its first request and returned no file: the one
\* tracked document is soft-deleted and the run is about to complete
C39_Witness ==
    \E r \in RunIds :
        /\ runs[r].pc = "complete"
        /\ runs[r].listFailed
        /\ runs[r].listedIds = {}
        /\ runs[r].activeAtCount # {}
        /\ \A i \in 1..Len(documents) : documents[i].isDeleted
        /\ RecsOfType(r, "deleted") # {}

\* C40 as stated: every caller of isAuthenticated() that found the access
\* token expired or expiring while a refresh token the token endpoint
\* accepts was held is answered true.
C40_EveryCallerAuthenticated ==
    \A c \in Callers :
        (/\ auth.callers[c].pc = "done"
         /\ auth.callers[c].sawExpiring
         /\ auth.valid)
            => auth.callers[c].answer

=============================================================================
